---- MODULE Spec2Model ----
(***************************************************************************)
(* Model of the search-filter utilities (searchUtils: validateSearchFilters *)
(* and normalizeSearchFilters) and of the route handlers that use them     *)
(* (POST /api/search, POST /api/saved-searches, PUT /api/saved-searches/id)*)
(*                                                                         *)
(* JavaScript values are modelled as tagged records so that the loosely    *)
(* typed request body (arbitrary JSON) can be represented: a scalar is     *)
(* [t, n, s] with t the type tag, n the numeric payload and s the string   *)
(* payload (a sequence of one-character strings).                          *)
(***************************************************************************)
EXTENDS Integers, Sequences, FiniteSets, TLC

VARIABLES
    filters,            \* searchUtils: the argument under test
    errors,             \* searchUtils: result of validateSearchFilters(filters)
    normalized,         \* searchUtils: result of normalizeSearchFilters(filters)
    renormalized,       \* searchUtils: result of normalizing `normalized` again
    revalidated,        \* searchUtils: result of validating `filters` a second time
    upc,                \* searchUtils: which calls have been made
    saved_searches,     \* routes: the saved_searches table
    reqs,               \* routes: the requests in flight, one record per slot
    queryHistory,       \* QueryMonitor.queryHistory
    suspiciousActivities, \* QueryMonitor.suspiciousActivities
    now,                \* the clock, in minutes
    injectionLog,       \* history: every logged query that matched a suspicious pattern
    sanInput,           \* sanitizeForSql: the argument
    sanOutput,          \* sanitizeForSql: the value returned
    hookState,          \* useSearch: results, loading and error of the hook's state
    searchCalls,        \* useSearch: the executeSearch calls made, in the order started
    use_count,          \* saved_searches.use_count of the row the use requests name
    useReqs,            \* POST /api/saved-searches/[id]: the requests, one per slot
    completedUses,      \* history: the use requests answered with 200
    urlParams,          \* the URLSearchParams written by syncFiltersToUrl
    reloaded            \* the filters queryParamsToFilters read back

vars == <<filters, errors, normalized, renormalized, revalidated, upc, saved_searches, reqs,
          queryHistory, suspiciousActivities, now, injectionLog,
          sanInput, sanOutput, hookState, searchCalls, use_count, useReqs, completedUses,
          urlParams, reloaded>>

----------------------------------------------------------------------------
(* Bounds of the model *)

MaxReqs == 2
MaxRows == 2
MaxLogged == 1

----------------------------------------------------------------------------
(* Program constants *)

RateCeiling == 1000000
RatePerMileCeiling == 50
WeightCeiling == 80000
DistanceCeiling == 5000
MaxRadius == 500
MaxPerPage == 100
MaxSearchTextLen == 1000
RapidQueries == 100

----------------------------------------------------------------------------
(* JavaScript scalar values *)

Undefined == [t |-> "undefined", n |-> 0, s |-> <<>>]
Null      == [t |-> "null", n |-> 0, s |-> <<>>]
NaN       == [t |-> "nan", n |-> 0, s |-> <<>>]
Num(k)    == [t |-> "number", n |-> k, s |-> <<>>]
Str(cs)   == [t |-> "string", n |-> 0, s |-> cs]
Bool(b)   == [t |-> "boolean", n |-> IF b THEN 1 ELSE 0, s |-> <<>>]

\* JavaScript truthiness of a scalar (Boolean(v), `if (v)`, `a && b`)
Truthy(v) ==
    CASE v.t = "undefined" -> FALSE
      [] v.t = "null"      -> FALSE
      [] v.t = "nan"       -> FALSE
      [] v.t = "number"    -> v.n # 0
      [] v.t = "boolean"   -> v.n = 1
      [] v.t = "string"    -> v.s # <<>>

\* Characters in ASCII order; the position stands for the character code.
AsciiOrder == << "\t", "\n", " ", "'", "(", ")", "*", "-", ".", "/",
                 "0", "1", "2", "3", "4", "5", "6", "7", "8", "9",
                 ";", "<", "=", ">",
                 "A", "B", "C", "D", "E", "F", "G", "H", "I", "J", "K", "L", "M",
                 "N", "O", "P", "Q", "R", "S", "T", "U", "V", "W", "X", "Y", "Z",
                 "_",
                 "a", "b", "c", "d", "e", "f", "g", "h", "i", "j", "k", "l", "m",
                 "n", "o", "p", "q", "r", "s", "t", "u", "v", "w", "x", "y", "z" >>

CharCode(c) == CHOOSE i \in 1..Len(AsciiOrder) : AsciiOrder[i] = c

IsSpace(c) == c \in {" ", "\t", "\n"}
IsDigit(c) == c \in {"0", "1", "2", "3", "4", "5", "6", "7", "8", "9"}
DigitVal(c) == CharCode(c) - CharCode("0")
IsLower(c) == CharCode(c) >= CharCode("a") /\ CharCode(c) <= CharCode("z")

\* String.prototype.trim
RECURSIVE TrimStart(_)
TrimStart(cs) ==
    IF cs = <<>> THEN cs
    ELSE IF IsSpace(Head(cs)) THEN TrimStart(Tail(cs)) ELSE cs

RECURSIVE TrimEnd(_)
TrimEnd(cs) ==
    IF cs = <<>> THEN cs
    ELSE IF IsSpace(cs[Len(cs)]) THEN TrimEnd(SubSeq(cs, 1, Len(cs) - 1)) ELSE cs

Trim(cs) == TrimEnd(TrimStart(cs))

\* String.prototype.toUpperCase (ASCII letters)
ToUpperCase(cs) ==
    [i \in 1..Len(cs) |->
        IF IsLower(cs[i])
        THEN AsciiOrder[CharCode(cs[i]) - CharCode("a") + CharCode("A")]
        ELSE cs[i]]

\* Value of a run of decimal digits
RECURSIVE DigitsValue(_)
DigitsValue(cs) ==
    IF cs = <<>> THEN 0
    ELSE 10 * DigitsValue(SubSeq(cs, 1, Len(cs) - 1)) + DigitVal(cs[Len(cs)])

AllDigits(cs) == cs # <<>> /\ \A i \in 1..Len(cs) : IsDigit(cs[i])

\* ToNumber applied to a string: whitespace is trimmed, the empty string is
\* 0, an optionally signed run of digits is that integer, anything else NaN.
StringToNumber(cs) ==
    LET tr == Trim(cs) IN
    IF tr = <<>> THEN Num(0)
    ELSE IF AllDigits(tr) THEN Num(DigitsValue(tr))
    ELSE IF Head(tr) = "-" /\ AllDigits(Tail(tr)) THEN Num(0 - DigitsValue(Tail(tr)))
    ELSE NaN

\* The abstract operation ToNumber
ToNumber(v) ==
    CASE v.t = "undefined" -> NaN
      [] v.t = "null"      -> Num(0)
      [] v.t = "nan"       -> NaN
      [] v.t = "number"    -> v
      [] v.t = "boolean"   -> Num(v.n)
      [] v.t = "string"    -> StringToNumber(v.s)

\* Lexicographic order on strings (code units)
RECURSIVE StrLess(_, _)
StrLess(a, b) ==
    IF b = <<>> THEN FALSE
    ELSE IF a = <<>> THEN TRUE
    ELSE IF CharCode(Head(a)) < CharCode(Head(b)) THEN TRUE
    ELSE IF CharCode(Head(a)) > CharCode(Head(b)) THEN FALSE
    ELSE StrLess(Tail(a), Tail(b))

\* The relational operators a < b, a > b, a >= b of JavaScript: two strings
\* compare as strings, anything else as numbers, and NaN compares false.
JsLt(a, b) ==
    IF a.t = "string" /\ b.t = "string" THEN StrLess(a.s, b.s)
    ELSE LET x == ToNumber(a)
             y == ToNumber(b)
         IN  x.t = "number" /\ y.t = "number" /\ x.n < y.n

JsGt(a, b) == JsLt(b, a)

JsGe(a, b) ==
    IF a.t = "string" /\ b.t = "string" THEN ~StrLess(a.s, b.s)
    ELSE LET x == ToNumber(a)
             y == ToNumber(b)
         IN  x.t = "number" /\ y.t = "number" /\ x.n >= y.n

\* Math.max(a, b) and Math.min(a, b)
MathMax(a, b) ==
    LET x == ToNumber(a)
        y == ToNumber(b)
    IN  IF x.t = "nan" \/ y.t = "nan" THEN NaN
        ELSE IF x.n >= y.n THEN x ELSE y

MathMin(a, b) ==
    LET x == ToNumber(a)
        y == ToNumber(b)
    IN  IF x.t = "nan" \/ y.t = "nan" THEN NaN
        ELSE IF x.n <= y.n THEN x ELSE y

----------------------------------------------------------------------------
(* Dates: new Date(value) and the comparison of two Date objects.  Time    *)
(* values are counted in whole days since 1970-01-01 (every date the model *)
(* parses is a date-only ISO string, which denotes UTC midnight).          *)

IsLeap(y) == (y % 4 = 0 /\ y % 100 # 0) \/ y % 400 = 0

DaysInMonth(y, m) ==
    IF m = 2 THEN (IF IsLeap(y) THEN 29 ELSE 28)
    ELSE IF m \in {4, 6, 9, 11} THEN 30 ELSE 31

\* Days from 1970-01-01 to the civil date y-m-d
DaysFromCivil(y, m, d) ==
    LET yy  == IF m <= 2 THEN y - 1 ELSE y
        era == yy \div 400
        yoe == yy - era * 400
        mp  == (m + 9) % 12
        doy == (153 * mp + 2) \div 5 + d - 1
        doe == yoe * 365 + yoe \div 4 - yoe \div 100 + doy
    IN  era * 146097 + doe - 719468

\* Date.parse of a string: "YYYY-MM-DD" with a month 1..12 and a day of that
\* month is a time value; every other string the model uses is an Invalid
\* Date (NaN).
DateParse(cs) ==
    IF /\ Len(cs) = 10
       /\ cs[5] = "-" /\ cs[8] = "-"
       /\ \A i \in {1, 2, 3, 4, 6, 7, 9, 10} : IsDigit(cs[i])
    THEN LET y == DigitsValue(SubSeq(cs, 1, 4))
             m == DigitsValue(SubSeq(cs, 6, 7))
             d == DigitsValue(SubSeq(cs, 9, 10))
         IN  IF m >= 1 /\ m <= 12 /\ d >= 1 /\ d <= DaysInMonth(y, m)
             THEN Num(DaysFromCivil(y, m, d))
             ELSE NaN
    ELSE NaN

\* The time value of new Date(v)
NewDate(v) == IF v.t = "string" THEN DateParse(v.s) ELSE ToNumber(v)

----------------------------------------------------------------------------
(* The SearchFilters shape.  A sub-object or array field carries a tag t:  *)
(* "undefined" (absent), "null", "prim" (a truthy primitive such as a      *)
(* non-empty string or a non-zero number, whose properties read as         *)
(* undefined) or "object" / "array".                                       *)

NoLocation   == [t |-> "undefined", city |-> Undefined, state |-> Undefined, radius |-> Undefined]
NoDateRange  == [t |-> "undefined", from |-> Undefined, to |-> Undefined]
NoRange      == [t |-> "undefined", min |-> Undefined, max |-> Undefined]
NoArray      == [t |-> "undefined", items |-> <<>>]

Location(c, st, r) == [t |-> "object", city |-> c, state |-> st, radius |-> r]
DateRange(f, to)   == [t |-> "object", from |-> f, to |-> to]
Range(mn, mx)      == [t |-> "object", min |-> mn, max |-> mx]
Array(xs)          == [t |-> "array", items |-> xs]

\* Truthiness of a sub-object or array field
Present(c) == c.t \in {"prim", "object", "array"}

\* const normalized: SearchFilters = {}
EmptyFilters ==
    [ origin |-> NoLocation, destination |-> NoLocation,
      equipment_types |-> NoArray, cargo_types |-> NoArray,
      pickup_date_range |-> NoDateRange, delivery_date_range |-> NoDateRange,
      rate_range |-> NoRange, rate_per_mile_range |-> NoRange,
      weight_range |-> NoRange, distance_range |-> NoRange,
      status_filters |-> NoArray, urgency |-> NoArray,
      exclude_locked |-> Undefined, only_no_bids |-> Undefined,
      only_my_bids |-> Undefined, exclude_my_bids |-> Undefined,
      search_text |-> Undefined,
      sort_by |-> Undefined, sort_order |-> Undefined,
      page |-> Undefined, per_page |-> Undefined ]

EquipmentType == { <<"d","r","y","_","v","a","n">>, <<"r","e","e","f","e","r">>,
                   <<"f","l","a","t","b","e","d">>, <<"s","t","e","p","_","d","e","c","k">>,
                   <<"l","o","w","b","o","y">>, <<"t","a","n","k","e","r">>,
                   <<"c","o","n","t","a","i","n","e","r">>, <<"b","o","x","_","t","r","u","c","k">>,
                   <<"s","t","r","a","i","g","h","t","_","t","r","u","c","k">>,
                   <<"h","o","t","s","h","o","t">> }

CargoType == { <<"g","e","n","e","r","a","l">>, <<"e","l","e","c","t","r","o","n","i","c","s">>,
               <<"f","o","o","d">>, <<"h","a","z","m","a","t">>,
               <<"a","u","t","o","m","o","t","i","v","e">>, <<"m","a","c","h","i","n","e","r","y">>,
               <<"t","e","x","t","i","l","e","s">>, <<"c","h","e","m","i","c","a","l","s">>,
               <<"f","u","r","n","i","t","u","r","e">>, <<"p","a","p","e","r">> }

----------------------------------------------------------------------------
(* validateSearchFilters and its helpers.  A helper returns a sequence     *)
(* holding its error, or the empty sequence for null.                      *)

Error(field, message) == <<[field |-> field, message |-> message]>>

\* Variant with the comparison of the two dates reversed
validateDateRange_reversed(range, field) ==
    IF /\ Truthy(range.from) /\ Truthy(range.to)
       /\ JsLt(NewDate(range.from), NewDate(range.to))
    THEN Error(field, "From date cannot be after To date")
    ELSE <<>>

validateDateRange(range, field) ==
    IF /\ Truthy(range.from) /\ Truthy(range.to)
       /\ JsGt(NewDate(range.from), NewDate(range.to))
    THEN Error(field, "From date cannot be after To date")
    ELSE <<>>

\* Variant that rejects a maximum equal to the ceiling
validateNumericRange_exclusive(range, field, absoluteMin, absoluteMax) ==
    IF range.min.t # "undefined" /\ JsLt(range.min, Num(absoluteMin))
    THEN Error(field, "Minimum value cannot be less than absoluteMin")
    ELSE IF range.max.t # "undefined" /\ JsGe(range.max, Num(absoluteMax))
    THEN Error(field, "Maximum value cannot be greater than absoluteMax")
    ELSE IF /\ range.min.t # "undefined" /\ range.max.t # "undefined"
            /\ JsGt(range.min, range.max)
    THEN Error(field, "Minimum value cannot be greater than maximum value")
    ELSE <<>>

validateNumericRange(range, field, absoluteMin, absoluteMax) ==
    IF range.min.t # "undefined" /\ JsLt(range.min, Num(absoluteMin))
    THEN Error(field, "Minimum value cannot be less than absoluteMin")
    ELSE IF range.max.t # "undefined" /\ JsGt(range.max, Num(absoluteMax))
    THEN Error(field, "Maximum value cannot be greater than absoluteMax")
    ELSE IF /\ range.min.t # "undefined" /\ range.max.t # "undefined"
            /\ JsGt(range.min, range.max)
    THEN Error(field, "Minimum value cannot be greater than maximum value")
    ELSE <<>>

validateLocationFilter(location, field) ==
    IF /\ location.radius.t # "undefined"
       /\ (JsLt(location.radius, Num(0)) \/ JsGt(location.radius, Num(MaxRadius)))
    THEN Error(field, "Radius must be between 0 and 500 miles")
    ELSE <<>>

\* `.length` of an array field: the item count of an array; a primitive
\* that reaches the test is truthy, so its length is never 0.
LengthIsZero(arr) == arr.t = "array" /\ Len(arr.items) = 0

validateSearchFilters(f) ==
       (IF Present(f.pickup_date_range)
        THEN validateDateRange(f.pickup_date_range, "pickup_date_range") ELSE <<>>)
    \o (IF Present(f.delivery_date_range)
        THEN validateDateRange(f.delivery_date_range, "delivery_date_range") ELSE <<>>)
    \o (IF Present(f.rate_range)
        THEN validateNumericRange(f.rate_range, "rate_range", 0, RateCeiling) ELSE <<>>)
    \o (IF Present(f.rate_per_mile_range)
        THEN validateNumericRange(f.rate_per_mile_range, "rate_per_mile_range", 0, RatePerMileCeiling)
        ELSE <<>>)
    \o (IF Present(f.weight_range)
        THEN validateNumericRange(f.weight_range, "weight_range", 0, WeightCeiling) ELSE <<>>)
    \o (IF Present(f.distance_range)
        THEN validateNumericRange(f.distance_range, "distance_range", 0, DistanceCeiling) ELSE <<>>)
    \o (IF Present(f.origin) THEN validateLocationFilter(f.origin, "origin") ELSE <<>>)
    \o (IF Present(f.destination) THEN validateLocationFilter(f.destination, "destination") ELSE <<>>)
    \o (IF Present(f.equipment_types) /\ LengthIsZero(f.equipment_types)
        THEN Error("equipment_types", "At least one equipment type must be selected") ELSE <<>>)
    \o (IF Truthy(f.page) /\ JsLt(f.page, Num(1))
        THEN Error("page", "Page number must be greater than 0") ELSE <<>>)
    \o (IF Truthy(f.per_page) /\ (JsLt(f.per_page, Num(1)) \/ JsGt(f.per_page, Num(MaxPerPage)))
        THEN Error("per_page", "Results per page must be between 1 and 100") ELSE <<>>)

----------------------------------------------------------------------------
(* normalizeSearchFilters and its helpers.  A call that raises a TypeError *)
(* (a method such as trim or filter looked up on a value that has none) is *)
(* modelled by its Throws predicate; the value operators give the result   *)
(* of a call that returns.                                                 *)

\* v.trim() raises when v reaches the call (it is truthy) and is no string
TrimThrows(v) == Truthy(v) /\ v.t # "string"

cleanLocationFilterThrows(location) ==
    TrimThrows(location.city) \/ TrimThrows(location.state)

\* Variant that keeps the case of the state
cleanLocationFilter_keepcase(location) ==
    [ t      |-> "object",
      city   |-> IF Truthy(location.city) /\ Trim(location.city.s) # <<>>
                 THEN Str(Trim(location.city.s)) ELSE Undefined,
      state  |-> IF Truthy(location.state) /\ Trim(location.state.s) # <<>>
                 THEN Str(Trim(location.state.s)) ELSE Undefined,
      radius |-> IF location.radius.t # "undefined" /\ JsGe(location.radius, Num(0))
                 THEN MathMin(Num(MaxRadius), location.radius) ELSE Undefined ]

cleanLocationFilter(location) ==
    [ t      |-> "object",
      city   |-> IF Truthy(location.city) /\ Trim(location.city.s) # <<>>
                 THEN Str(Trim(location.city.s)) ELSE Undefined,
      state  |-> IF Truthy(location.state) /\ Trim(location.state.s) # <<>>
                 THEN Str(ToUpperCase(Trim(location.state.s))) ELSE Undefined,
      radius |-> IF location.radius.t # "undefined" /\ JsGe(location.radius, Num(0))
                 THEN MathMin(Num(MaxRadius), location.radius) ELSE Undefined ]

cleanDateRange(range) ==
    [ t    |-> "object",
      from |-> IF Truthy(range.from) THEN range.from ELSE Undefined,
      to   |-> IF Truthy(range.to) THEN range.to ELSE Undefined ]

cleanNumericRange(range) ==
    [ t   |-> "object",
      min |-> IF range.min.t # "undefined" /\ JsGe(range.min, Num(0))
              THEN range.min ELSE Undefined,
      max |-> IF range.max.t # "undefined" /\ JsGe(range.max, Num(0))
              THEN range.max ELSE Undefined ]

\* xs.filter(Boolean)
FilterBoolean(xs) == SelectSeq(xs, Truthy)

\* Array.from(new Set(xs)): the first occurrence of every value, in order
RECURSIVE ArrayFromSet(_)
ArrayFromSet(xs) ==
    IF xs = <<>> THEN <<>>
    ELSE LET front == ArrayFromSet(SubSeq(xs, 1, Len(xs) - 1))
             last  == xs[Len(xs)]
         IN  IF \E i \in 1..Len(front) : front[i] = last
             THEN front ELSE Append(front, last)

\* arr.filter raises when arr is present but is no array
cleanArrayThrows(arr) == Present(arr) /\ arr.t # "array"

\* Variant without the Set: duplicates are kept
cleanArray_duplicates(arr) == Array(FilterBoolean(arr.items))

cleanArray(arr) == Array(ArrayFromSet(FilterBoolean(arr.items)))

normalizeThrows(f) ==
    \/ Present(f.origin) /\ cleanLocationFilterThrows(f.origin)
    \/ Present(f.destination) /\ cleanLocationFilterThrows(f.destination)
    \/ cleanArrayThrows(f.equipment_types)
    \/ cleanArrayThrows(f.cargo_types)
    \/ cleanArrayThrows(f.status_filters)
    \/ cleanArrayThrows(f.urgency)
    \/ TrimThrows(f.search_text)

normalizeValue(f) ==
    [ origin |-> IF Present(f.origin) THEN cleanLocationFilter(f.origin) ELSE NoLocation,
      destination |-> IF Present(f.destination) THEN cleanLocationFilter(f.destination)
                      ELSE NoLocation,
      pickup_date_range |-> IF Present(f.pickup_date_range)
                            THEN cleanDateRange(f.pickup_date_range) ELSE NoDateRange,
      delivery_date_range |-> IF Present(f.delivery_date_range)
                              THEN cleanDateRange(f.delivery_date_range) ELSE NoDateRange,
      rate_range |-> IF Present(f.rate_range) THEN cleanNumericRange(f.rate_range) ELSE NoRange,
      rate_per_mile_range |-> IF Present(f.rate_per_mile_range)
                              THEN cleanNumericRange(f.rate_per_mile_range) ELSE NoRange,
      weight_range |-> IF Present(f.weight_range) THEN cleanNumericRange(f.weight_range)
                       ELSE NoRange,
      distance_range |-> IF Present(f.distance_range) THEN cleanNumericRange(f.distance_range)
                         ELSE NoRange,
      equipment_types |-> IF Present(f.equipment_types) THEN cleanArray(f.equipment_types)
                          ELSE NoArray,
      cargo_types |-> IF Present(f.cargo_types) THEN cleanArray(f.cargo_types) ELSE NoArray,
      status_filters |-> IF Present(f.status_filters) THEN cleanArray(f.status_filters)
                         ELSE NoArray,
      urgency |-> IF Present(f.urgency) THEN cleanArray(f.urgency) ELSE NoArray,
      search_text |-> IF Truthy(f.search_text) /\ Trim(f.search_text.s) # <<>>
                      THEN Str(Trim(f.search_text.s)) ELSE Undefined,
      exclude_locked |-> f.exclude_locked,
      only_no_bids |-> f.only_no_bids,
      only_my_bids |-> f.only_my_bids,
      exclude_my_bids |-> f.exclude_my_bids,
      sort_by |-> IF Truthy(f.sort_by) THEN f.sort_by ELSE Undefined,
      sort_order |-> IF Truthy(f.sort_order) THEN f.sort_order ELSE Undefined,
      page |-> IF Truthy(f.page) THEN MathMax(Num(1), f.page) ELSE Undefined,
      per_page |-> IF Truthy(f.per_page)
                   THEN MathMin(Num(MaxPerPage), MathMax(Num(1), f.per_page))
                   ELSE Undefined ]

\* The outcome of a call: threw, or the value returned
normalizeSearchFilters(f) ==
    IF normalizeThrows(f)
    THEN [threw |-> TRUE, value |-> EmptyFilters]
    ELSE [threw |-> FALSE, value |-> normalizeValue(f)]

NotCalled == [threw |-> FALSE, value |-> EmptyFilters]

----------------------------------------------------------------------------
(* Inputs: the filters values the utilities are exercised on.  Every field *)
(* family is varied over in-range, boundary, out-of-range and wrongly      *)
(* typed JSON values; Combined varies several fields at once.              *)

MaxItems == 3

sChicago == <<" "," ","C","h","i","c","a","g","o"," "," ">>
sIllinois == <<" "," ","i","l"," ">>
sBlank == <<" "," ">>
sAbc == <<"a","b","c">>
s2 == <<"2">>
s5 == <<"5">>
s10 == <<"1","0">>
s50 == <<"5","0">>
s600 == <<"6","0","0">>
sTestSearch == <<" "," ","t","e","s","t"," ","s","e","a","r","c","h"," "," ">>
sJan01 == <<"2","0","2","4","-","0","1","-","0","1">>
sDec31 == <<"2","0","2","4","-","1","2","-","3","1">>
sJun15 == <<"2","0","2","5","-","0","6","-","1","5">>
sNotADate == <<"n","o","t","-","a","-","d","a","t","e">>
sNotAType == <<"n","o","t","_","a","_","t","y","p","e">>
sDryVan == <<"d","r","y","_","v","a","n">>
sReefer == <<"r","e","e","f","e","r">>
sGeneral == <<"g","e","n","e","r","a","l">>
sFood == <<"f","o","o","d">>
sRate == <<"r","a","t","e">>
sAsc == <<"a","s","c">>
sLong(k) == [i \in 1..k |-> "a"]
sDropTable ==
    << "'", ";", " ", "D", "R", "O", "P", " ", "T", "A", "B", "L", "E", " ", "o", "p",
       "p", "o", "r", "t", "u", "n", "i", "t", "i", "e", "s", ";", " ", "-", "-" >>
sUnionSelect ==
    << "'", " ", "U", "N", "I", "O", "N", " ", "S", "E", "L", "E", "C", "T", " ", "*",
       " ", "F", "R", "O", "M", " ", "u", "s", "e", "r", "s", " ", "-", "-" >>
sOrTrue ==
    << "'", " ", "O", "R", " ", "'", "1", "'", "=", "'", "1", "'", " ", "-", "-" >>
sScript ==
    << "<", "s", "c", "r", "i", "p", "t", ">", "a", "l", "e", "r", "t", "(", "'", "x",
       "s", "s", "'", ")", "<", "/", "s", "c", "r", "i", "p", "t", ">" >>
sFreight ==
    << "C", "h", "i", "c", "a", "g", "o", " ", "t", "o", " ", "L", "o", "s", " ", "A",
       "n", "g", "e", "l", "e", "s", " ", "f", "r", "e", "i", "g", "h", "t" >>
sStLouis == << "S", "t", ".", " ", "L", "o", "u", "i", "s" >>

SeqsUpTo(S, k) == UNION {[1..m -> S] : m \in 0..k}

RangeBounds(ceiling) ==
    { Undefined, Null, Num(-1), Num(0), Num(5), Num(ceiling), Num(ceiling + 1),
      Str(sAbc), Str(s10), Str(s5) }

RangeValues(ceiling) ==
    { Range(mn, mx) : mn \in RangeBounds(ceiling), mx \in RangeBounds(ceiling) }
        \cup { [NoRange EXCEPT !.t = "null"], [NoRange EXCEPT !.t = "prim"] }

LocationValues ==
    { Location(c, st, r) :
        c  \in {Undefined, Str(sChicago), Str(sBlank), Num(5), Str(sStLouis),
                Str(sDropTable), Str(sScript)},
        st \in {Undefined, Str(sIllinois), Null, Str(sOrTrue)},
        r  \in {Undefined, Null, Num(-1), Num(0), Num(MaxRadius), Num(MaxRadius + 1),
                Str(s600), Str(sAbc)} }
        \cup { [NoLocation EXCEPT !.t = "null"], [NoLocation EXCEPT !.t = "prim"] }

DateBounds ==
    { Undefined, Null, Str(<<>>), Str(sJan01), Str(sDec31), Str(sJun15), Str(sNotADate) }

DateRangeValues ==
    { DateRange(f, t) : f \in DateBounds, t \in DateBounds }
        \cup { [NoDateRange EXCEPT !.t = "null"], [NoDateRange EXCEPT !.t = "prim"] }

EquipmentItems == { Str(sDryVan), Str(sReefer), Str(sNotAType), Str(<<>>), Null }
CargoItems     == { Str(sGeneral), Str(sFood), Str(sNotAType), Str(<<>>), Null }

ArrayValues(items) ==
    { Array(xs) : xs \in SeqsUpTo(items, MaxItems) }
        \cup { [NoArray EXCEPT !.t = "null"], [NoArray EXCEPT !.t = "prim"] }

SearchTextValues ==
    { Null, Str(<<>>), Str(sBlank), Str(sTestSearch), Str(sAbc), Num(123), Bool(TRUE),
      Str(sFreight), Str(sDropTable), Str(sUnionSelect), Str(sOrTrue), Str(sScript),
      Str(sLong(MaxSearchTextLen)), Str(sLong(MaxSearchTextLen + 1)) }

PageValues ==
    { Undefined, Null, Num(-1), Num(0), Num(1), Num(2), Str(s2), Str(sAbc) }

PerPageValues ==
    { Undefined, Num(-10), Num(0), Num(1), Num(50), Num(MaxPerPage), Num(MaxPerPage + 1),
      Num(10000), Str(s50), Str(sAbc) }

RangeInputs ==
         { [EmptyFilters EXCEPT !.rate_range = v] : v \in RangeValues(RateCeiling) }
    \cup { [EmptyFilters EXCEPT !.rate_per_mile_range = v] : v \in RangeValues(RatePerMileCeiling) }
    \cup { [EmptyFilters EXCEPT !.weight_range = v] : v \in RangeValues(WeightCeiling) }
    \cup { [EmptyFilters EXCEPT !.distance_range = v] : v \in RangeValues(DistanceCeiling) }

LocationInputs ==
         { [EmptyFilters EXCEPT !.origin = v] : v \in LocationValues }
    \cup { [EmptyFilters EXCEPT !.destination = v] : v \in LocationValues }

DateInputs ==
         { [EmptyFilters EXCEPT !.pickup_date_range = v] : v \in DateRangeValues }
    \cup { [EmptyFilters EXCEPT !.delivery_date_range = v] : v \in DateRangeValues }

ArrayInputs ==
         { [EmptyFilters EXCEPT !.equipment_types = v] : v \in ArrayValues(EquipmentItems) }
    \cup { [EmptyFilters EXCEPT !.cargo_types = v] : v \in ArrayValues(CargoItems) }
    \cup { [EmptyFilters EXCEPT !.status_filters = v] : v \in ArrayValues(CargoItems) }
    \cup { [EmptyFilters EXCEPT !.urgency = v] : v \in ArrayValues(CargoItems) }

ScalarInputs ==
         { [EmptyFilters EXCEPT !.search_text = v] : v \in SearchTextValues }
    \cup { [EmptyFilters EXCEPT !.page = p, !.per_page = pp] :
             p \in PageValues, pp \in PerPageValues }
    \cup { [EmptyFilters EXCEPT !.exclude_locked = b, !.only_no_bids = c,
                                !.sort_by = sb, !.sort_order = so] :
             b \in {Undefined, Bool(TRUE), Bool(FALSE), Null},
             c \in {Undefined, Bool(TRUE)},
             sb \in {Undefined, Str(sRate), Str(<<>>)},
             so \in {Undefined, Str(sAsc)} }

\* Several fields set at once, each valid or violating a rule
Combined ==
    { [EmptyFilters EXCEPT !.pickup_date_range = d, !.delivery_date_range = dd,
                           !.rate_range = r, !.origin = o,
                           !.equipment_types = e, !.page = p, !.per_page = pp] :
        d  \in {NoDateRange, DateRange(Str(sDec31), Str(sJan01)), DateRange(Str(sJan01), Str(sDec31))},
        dd \in {NoDateRange, DateRange(Str(sJun15), Str(sJan01))},
        r  \in {NoRange, Range(Num(10), Num(5)), Range(Num(5), Num(10))},
        o  \in {NoLocation, Location(Str(sChicago), Undefined, Num(MaxRadius + 1))},
        e  \in {NoArray, Array(<<>>), Array(<<Str(sDryVan)>>), Array(<<Str(sNotAType)>>)},
        p  \in {Undefined, Num(0), Num(2)},
        pp \in {Undefined, Num(MaxPerPage + 1)} }

FilterInputs ==
    RangeInputs \cup LocationInputs \cup DateInputs \cup ArrayInputs \cup ScalarInputs
        \cup Combined

----------------------------------------------------------------------------
(* The utilities as a state machine: an input is chosen, validated,        *)
(* normalized, and the normalized value is normalized again.               *)

IdleReq ==
    [ pc |-> "idle", kind |-> "none", user |-> "none", id |-> 0,
      name |-> Undefined, filters_t |-> "undefined", filters |-> EmptyFilters,
      is_default |-> Undefined, normalizedFilters |-> EmptyFilters,
      status |-> 0, authHeader |-> Null, steps |-> {},
      page |-> Undefined, per_page |-> Undefined,
      before |-> <<>> ]    \* history: the stored rows when the handler started

RoutesInit ==
    /\ saved_searches = <<>>
    /\ reqs = [r \in 1..MaxReqs |-> IdleReq]
    /\ queryHistory = <<>>
    /\ suspiciousActivities = <<>>
    /\ now = 0
    /\ injectionLog = <<>>

monitorVars == <<queryHistory, suspiciousActivities, now, injectionLog>>
routeVars == <<saved_searches, reqs, monitorVars>>
utilVars == <<filters, errors, normalized, renormalized, revalidated, upc>>
sanVars == <<sanInput, sanOutput>>
hookVars == <<hookState, searchCalls>>
useVars == <<use_count, useReqs, completedUses>>
urlVars == <<urlParams, reloaded>>
clientVars == <<sanVars, hookVars, useVars, urlVars>>

\* sanitizeForSql has not been called
SanInit ==
    /\ sanInput = Undefined
    /\ sanOutput = [called |-> FALSE, value |-> <<>>]

\* useState({ ..., results: null, loading: false, error: null, ... })
HookInit ==
    /\ hookState = [results |-> 0, loading |-> FALSE, error |-> FALSE]
    /\ searchCalls = <<>>

IdleUse == [pc |-> "idle", read |-> 0, status |-> 0]

UseInit ==
    /\ use_count = 0
    /\ useReqs = [r \in 1..MaxReqs |-> IdleUse]
    /\ completedUses = 0

UrlInit ==
    /\ urlParams = <<>>
    /\ reloaded = NotCalled

ClientInit == SanInit /\ HookInit /\ UseInit /\ UrlInit

UtilsInit ==
    /\ filters \in FilterInputs
    /\ errors = <<>>
    /\ normalized = NotCalled
    /\ renormalized = NotCalled
    /\ revalidated = <<>>
    /\ upc = "input"
    /\ RoutesInit
    /\ ClientInit

Validate ==
    /\ upc = "input"
    /\ errors' = validateSearchFilters(filters)
    /\ upc' = "validated"
    /\ UNCHANGED <<filters, normalized, renormalized, revalidated, routeVars, clientVars>>

\* Variant that cleans the argument in place and returns it
Normalize_inplace ==
    /\ upc = "validated"
    /\ normalized' = normalizeSearchFilters(filters)
    /\ filters' = IF normalized'.threw THEN filters ELSE normalized'.value
    /\ upc' = "normalized"
    /\ UNCHANGED <<errors, renormalized, revalidated, routeVars, clientVars>>

Normalize ==
    /\ upc = "validated"
    /\ normalized' = normalizeSearchFilters(filters)
    /\ upc' = "normalized"
    /\ UNCHANGED <<filters, errors, renormalized, revalidated, routeVars, clientVars>>

Renormalize ==
    /\ upc = "normalized"
    /\ ~normalized.threw
    /\ renormalized' = normalizeSearchFilters(normalized.value)
    /\ upc' = "renormalized"
    /\ UNCHANGED <<filters, errors, normalized, revalidated, routeVars, clientVars>>

\* validateSearchFilters is called again on the argument both calls received
Revalidate ==
    /\ upc = "normalized"
    /\ revalidated' = validateSearchFilters(filters)
    /\ upc' = "revalidated"
    /\ UNCHANGED <<filters, errors, normalized, renormalized, routeVars, clientVars>>

UtilsNext == Validate \/ Normalize \/ Renormalize \/ Revalidate

SpecUtils == UtilsInit /\ [][UtilsNext]_vars

----------------------------------------------------------------------------
(* Vocabulary of the properties: the validation rules as the specification *)
(* words them, stated on typed values and independently of the code.       *)

Validated == upc # "input"
Normalized == upc \in {"normalized", "renormalized", "revalidated"}

HasError(errs, field) == \E i \in DOMAIN errs : errs[i].field = field

IsNum(v) == v.t = "number"
IsStr(v) == v.t = "string"
Absent(v) == v.t \in {"undefined", "null"}

RangeFields == {"rate_range", "rate_per_mile_range", "weight_range", "distance_range"}
DateFields == {"pickup_date_range", "delivery_date_range"}
LocationFields == {"origin", "destination"}

Ceiling(field) ==
    CASE field = "rate_range"          -> RateCeiling
      [] field = "rate_per_mile_range" -> RatePerMileCeiling
      [] field = "weight_range"        -> WeightCeiling
      [] field = "distance_range"      -> DistanceCeiling

\* A range whose bounds are numbers where present
TypedRange(r) ==
    /\ r.t = "object"
    /\ r.min.t \in {"undefined", "number"}
    /\ r.max.t \in {"undefined", "number"}

\* The numeric-range rule is broken: min < 0, max > ceiling, or min > max
RangeRuleBroken(r, ceiling) ==
    \/ IsNum(r.min) /\ r.min.n < 0
    \/ IsNum(r.max) /\ r.max.n > ceiling
    \/ IsNum(r.min) /\ IsNum(r.max) /\ r.min.n > r.max.n

\* The radius rule is broken: radius outside [0, 500]
RadiusRuleBroken(l) == IsNum(l.radius) /\ (l.radius.n < 0 \/ l.radius.n > MaxRadius)

\* ISO dates order as their text does
IsIsoDate(v) == IsStr(v) /\ DateParse(v.s).t = "number"
FromLaterThanTo(d) ==
    d.t = "object" /\ IsIsoDate(d.from) /\ IsIsoDate(d.to) /\ StrLess(d.to.s, d.from.s)
FromNotLaterThanTo(d) ==
    d.t = "object" /\ IsIsoDate(d.from) /\ IsIsoDate(d.to) /\ ~StrLess(d.to.s, d.from.s)

AllAllowed(arr, allowed) ==
    \A i \in DOMAIN arr.items : IsStr(arr.items[i]) /\ arr.items[i].s \in allowed

\* Field by field: the value is absent, or well typed and within every rule
RangeOk(r, ceiling) == r.t = "undefined" \/ (TypedRange(r) /\ ~RangeRuleBroken(r, ceiling))
LocationOk(l) ==
    \/ l.t = "undefined"
    \/ /\ l.t = "object"
       /\ l.city.t \in {"undefined", "string"}
       /\ l.state.t \in {"undefined", "string"}
       /\ l.radius.t \in {"undefined", "number"}
       /\ ~RadiusRuleBroken(l)
DateOk(d) ==
    \/ d.t = "undefined"
    \/ /\ d.t = "object"
       /\ d.from.t = "undefined" \/ IsIsoDate(d.from)
       /\ d.to.t = "undefined" \/ IsIsoDate(d.to)
       /\ ~FromLaterThanTo(d)
EnumOk(arr, allowed) ==
    arr.t = "undefined" \/ (arr.t = "array" /\ arr.items # <<>> /\ AllAllowed(arr, allowed))
PageOk(v) == v.t = "undefined" \/ (IsNum(v) /\ v.n >= 1)
PerPageOk(v) == v.t = "undefined" \/ (IsNum(v) /\ v.n >= 1 /\ v.n <= MaxPerPage)
TextOk(v) == v.t = "undefined" \/ (IsStr(v) /\ Len(v.s) <= MaxSearchTextLen)

\* Every field other than `except` is within the rules
OthersOk(f, except) ==
    /\ except = "pickup_date_range" \/ DateOk(f.pickup_date_range)
    /\ except = "delivery_date_range" \/ DateOk(f.delivery_date_range)
    /\ \A fld \in RangeFields : RangeOk(f[fld], Ceiling(fld))
    /\ \A fld \in LocationFields : LocationOk(f[fld])
    /\ EnumOk(f.equipment_types, EquipmentType)
    /\ EnumOk(f.cargo_types, CargoType)
    /\ f.status_filters.t \in {"undefined", "array"}
    /\ f.urgency.t \in {"undefined", "array"}
    /\ PageOk(f.page)
    /\ PerPageOk(f.per_page)
    /\ TextOk(f.search_text)

----------------------------------------------------------------------------
(* Properties of the utilities (specification SpecUtils)                   *)

\* C3: normalizeSearchFilters returns a filters object without throwing for
\* every JSON object input, wrongly typed fields included.
C3_NormalizeNeverThrows == Normalized => ~normalized.threw

\* C4: in the output of normalizeSearchFilters, a numeric range that has both
\* min and max satisfies 0 <= min <= max.
C4_RangesOrdered ==
    (Normalized /\ ~normalized.threw) =>
        \A fld \in RangeFields :
            LET r == normalized.value[fld] IN
            (IsNum(r.min) /\ IsNum(r.max)) => (0 <= r.min.n /\ r.min.n <= r.max.n)

\* C5: normalizing a normalized value returns that same value, field by field.
C5_Idempotent ==
    upc = "renormalized" =>
        (~renormalized.threw /\ renormalized.value = normalized.value)

\* C6: validateSearchFilters reports an error on per_page for every per_page
\* outside [1,100] (0 and 101 included) and none for 100, and an error on page
\* for every page below 1 (0 included).
C6_PaginationErrors ==
    Validated =>
        /\ (IsNum(filters.per_page) /\ ~PerPageOk(filters.per_page))
              => HasError(errors, "per_page")
        /\ (IsNum(filters.per_page) /\ filters.per_page.n = MaxPerPage)
              => ~HasError(errors, "per_page")
        /\ (IsNum(filters.page) /\ ~PageOk(filters.page)) => HasError(errors, "page")

\* C7: validateSearchFilters reports an error on equipment_types (cargo_types)
\* whenever the array holds an element outside the allowed set, and none when
\* the array is non-empty and every element is allowed.
C7_EnumErrors ==
    Validated =>
        /\ (filters.equipment_types.t = "array"
               /\ ~AllAllowed(filters.equipment_types, EquipmentType))
              => HasError(errors, "equipment_types")
        /\ (filters.cargo_types.t = "array" /\ ~AllAllowed(filters.cargo_types, CargoType))
              => HasError(errors, "cargo_types")
        /\ (filters.equipment_types.t = "array" /\ filters.equipment_types.items # <<>>
               /\ AllAllowed(filters.equipment_types, EquipmentType))
              => ~HasError(errors, "equipment_types")
        /\ (filters.cargo_types.t = "array" /\ filters.cargo_types.items # <<>>
               /\ AllAllowed(filters.cargo_types, CargoType))
              => ~HasError(errors, "cargo_types")

\* C8: when the only rule violation is a date range whose from is later than
\* its to, validateSearchFilters returns exactly one error and its field is
\* that date range; when from <= to or a bound is absent, that field has no
\* error.
C8_DateRangeErrors ==
    Validated =>
        \A d \in DateFields :
            /\ (FromLaterThanTo(filters[d]) /\ OthersOk(filters, d))
                  => (Len(errors) = 1 /\ errors[1].field = d)
            /\ (filters[d].t = "object"
                   /\ (Absent(filters[d].from) \/ Absent(filters[d].to)
                          \/ FromNotLaterThanTo(filters[d])))
                  => ~HasError(errors, d)

C8_Witness ==
    /\ Validated
    /\ FromLaterThanTo(filters.pickup_date_range)
    /\ OthersOk(filters, "pickup_date_range")
    /\ filters.rate_range.t = "object"
    /\ Len(errors) = 1

\* C9: validateSearchFilters reports an error on a numeric range exactly when
\* min < 0, or max > the field's ceiling, or min > max, and on origin /
\* destination exactly when the radius is outside [0,500].
C9_RangeAndRadiusErrors ==
    Validated =>
        /\ \A fld \in RangeFields :
              (filters[fld].t = "undefined" \/ TypedRange(filters[fld]))
                 => (HasError(errors, fld) <=> RangeRuleBroken(filters[fld], Ceiling(fld)))
        /\ \A fld \in LocationFields :
              (filters[fld].t = "undefined"
                  \/ (filters[fld].t = "object"
                        /\ filters[fld].radius.t \in {"undefined", "number"}))
                 => (HasError(errors, fld) <=> RadiusRuleBroken(filters[fld]))

C9_Witness ==
    /\ Validated
    /\ TypedRange(filters.weight_range)
    /\ IsNum(filters.weight_range.max) /\ filters.weight_range.max.n = WeightCeiling + 1
    /\ HasError(errors, "weight_range")

\* C10: validateSearchFilters reports an error on search_text whenever the
\* text is longer than 1000 characters, and none for text of at most 1000.
C10_SearchTextLength ==
    Validated =>
        /\ (IsStr(filters.search_text) /\ Len(filters.search_text.s) > MaxSearchTextLen)
              => HasError(errors, "search_text")
        /\ (IsStr(filters.search_text) /\ Len(filters.search_text.s) <= MaxSearchTextLen)
              => ~HasError(errors, "search_text")

\* The fields of f whose value breaks a validation rule: a date range with
\* from later than to, a numeric range or a radius out of bounds, an empty
\* equipment list, a page below 1, a per_page outside 1..100.
BrokenFields(f) ==
         { d \in DateFields : FromLaterThanTo(f[d]) }
    \cup { fld \in RangeFields : TypedRange(f[fld]) /\ RangeRuleBroken(f[fld], Ceiling(fld)) }
    \cup { l \in LocationFields : f[l].t = "object" /\ RadiusRuleBroken(f[l]) }
    \cup { a \in {"equipment_types"} : f[a].t = "array" /\ f[a].items = <<>> }
    \cup { p \in {"page"} : IsNum(f[p]) /\ f[p].n < 1 }
    \cup { p \in {"per_page"} : IsNum(f[p]) /\ (f[p].n < 1 \/ f[p].n > MaxPerPage) }

\* C11: when several fields break a validation rule at once,
\* validateSearchFilters returns a list that holds an error for every one of
\* those fields; it does not stop at the first.
C11_ErrorsAccumulate ==
    (Validated /\ Cardinality(BrokenFields(filters)) >= 2)
        => \A fld \in BrokenFields(filters) : HasError(errors, fld)

Returned == Normalized /\ ~normalized.threw

\* k moved to the nearest value of lo..hi
Nearest(k, lo, hi) == IF k < lo THEN lo ELSE IF k > hi THEN hi ELSE k

\* C12: normalizeSearchFilters repairs out-of-bound values instead of
\* dropping them: every numeric range bound and every radius of the input is
\* still present in the output, a negative minimum as 0 and a radius as the
\* nearest value of 0..500.
C12_RepairsOutOfBounds ==
    Returned =>
        /\ \A fld \in RangeFields :
              TypedRange(filters[fld]) =>
                 /\ IsNum(filters[fld].min)
                       => /\ IsNum(normalized.value[fld].min)
                          /\ normalized.value[fld].min.n >= 0
                          /\ filters[fld].min.n >= 0
                                => normalized.value[fld].min = filters[fld].min
                 /\ IsNum(filters[fld].max) => IsNum(normalized.value[fld].max)
        /\ \A l \in LocationFields :
              (filters[l].t = "object" /\ IsNum(filters[l].radius))
                 => normalized.value[l].radius = Num(Nearest(filters[l].radius.n, 0, MaxRadius))

\* C13: for every input with a numeric page and per_page, the output of
\* normalizeSearchFilters has page = max(1, page) and
\* per_page = min(100, max(1, per_page)).
C13_PaginationClamped ==
    Returned =>
        /\ IsNum(filters.page)
              => normalized.value.page = Num(Nearest(filters.page.n, 1, filters.page.n))
        /\ IsNum(filters.per_page)
              => normalized.value.per_page = Num(Nearest(filters.per_page.n, 1, MaxPerPage))

\* o is i with its surrounding whitespace removed
IsTrimOf(o, i) ==
    \E a \in 0..Len(i) : \E b \in 0..(Len(i) - a) :
        /\ o = SubSeq(i, a + 1, Len(i) - b)
        /\ \A k \in 1..a : IsSpace(i[k])
        /\ \A k \in (Len(i) - b + 1)..Len(i) : IsSpace(i[k])
        /\ o # <<>> => (~IsSpace(o[1]) /\ ~IsSpace(o[Len(o)]))

LowerLetters == << "a", "b", "c", "d", "e", "f", "g", "h", "i", "j", "k", "l", "m",
                   "n", "o", "p", "q", "r", "s", "t", "u", "v", "w", "x", "y", "z" >>
UpperLetters == << "A", "B", "C", "D", "E", "F", "G", "H", "I", "J", "K", "L", "M",
                   "N", "O", "P", "Q", "R", "S", "T", "U", "V", "W", "X", "Y", "Z" >>
UpperOf(c) ==
    IF \E k \in 1..26 : LowerLetters[k] = c
    THEN UpperLetters[CHOOSE k \in 1..26 : LowerLetters[k] = c]
    ELSE c

IsBlank(cs) == \A k \in 1..Len(cs) : IsSpace(cs[k])

\* Output o holds input string i trimmed, or nothing when i is blank
TrimmedOrAbsent(i, o) ==
    IsStr(i) => IF IsBlank(i.s) THEN o = Undefined
                ELSE IsStr(o) /\ IsTrimOf(o.s, i.s)

\* Output o holds input string i trimmed and upper-cased, or nothing
UpperTrimmedOrAbsent(i, o) ==
    IsStr(i) => IF IsBlank(i.s) THEN o = Undefined
                ELSE IsStr(o) /\ IsTrimOf(o.s, [k \in 1..Len(i.s) |-> UpperOf(i.s[k])])

ArrayFields == {"equipment_types", "cargo_types", "status_filters", "urgency"}

Items(xs) == {xs[k] : k \in DOMAIN xs}

\* C15: in the output of normalizeSearchFilters, each of equipment_types,
\* cargo_types, status_filters and urgency holds every truthy value of the
\* input array exactly once and no falsy entry.
C15_ArraysDeduplicated ==
    Returned =>
        \A a \in ArrayFields :
            filters[a].t = "array" =>
                LET in  == filters[a].items
                    out == normalized.value[a].items
                IN  /\ normalized.value[a].t = "array"
                    /\ Items(out) = {x \in Items(in) : Truthy(x)}
                    /\ \A j, k \in DOMAIN out : out[j] = out[k] => j = k

C15_Witness ==
    /\ Returned
    /\ filters.equipment_types = Array(<<Str(sDryVan), Null, Str(sDryVan)>>)
    /\ normalized.value.equipment_types = Array(<<Str(sDryVan)>>)

InjectionSamples == {sDropTable, sUnionSelect, sOrTrue, sScript}
IsInjection(v) == IsStr(v) /\ v.s \in InjectionSamples

\* C17: validateSearchFilters returns at least one error whenever search_text
\* or the city or state of origin / destination carries an SQL-injection or
\* script pattern, and no search_text or location error for plain text.
C17_InjectionRejected ==
    Validated =>
        /\ IsInjection(filters.search_text) => errors # <<>>
        /\ \A l \in LocationFields :
              (filters[l].t = "object"
                  /\ (IsInjection(filters[l].city) \/ IsInjection(filters[l].state)))
                 => errors # <<>>
        /\ filters.search_text = Str(sFreight) => ~HasError(errors, "search_text")
        /\ \A l \in LocationFields :
              (filters[l].t = "object" /\ filters[l].city = Str(sStLouis)
                  /\ Absent(filters[l].radius))
                 => ~HasError(errors, l)

\* A string that is not empty and is no valid ISO date
MalformedDate(v) == IsStr(v) /\ v.s # <<>> /\ ~IsIsoDate(v)
\* A string that does not denote a finite number
NotANumber(v) == IsStr(v) /\ StringToNumber(v.s).t = "nan"

\* C18: validateSearchFilters returns at least one error when a bound of a
\* date range is not a valid ISO date or a bound of a numeric range is not a
\* finite number.
C18_MalformedRejected ==
    Validated =>
        /\ \A d \in DateFields :
              (filters[d].t = "object"
                  /\ (MalformedDate(filters[d].from) \/ MalformedDate(filters[d].to)))
                 => errors # <<>>
        /\ \A fld \in RangeFields :
              (filters[fld].t = "object"
                  /\ (NotANumber(filters[fld].min) \/ NotANumber(filters[fld].max)))
                 => errors # <<>>

\* A string of decimal digits
NumericString(v) == IsStr(v) /\ AllDigits(v.s)

\* C19: when the input gives rate_range.min, rate_range.max, page and
\* per_page as numeric strings, the output of normalizeSearchFilters holds
\* each of them as a number.
C19_NumericStringsConverted ==
    Returned =>
        /\ filters.rate_range.t = "object" =>
              /\ NumericString(filters.rate_range.min)
                    => IsNum(normalized.value.rate_range.min)
              /\ NumericString(filters.rate_range.max)
                    => IsNum(normalized.value.rate_range.max)
        /\ NumericString(filters.page) => IsNum(normalized.value.page)
        /\ NumericString(filters.per_page) => IsNum(normalized.value.per_page)

----------------------------------------------------------------------------
(* The route handlers.  A handler runs from one `await` to the next as one *)
(* atomic step; every database call is one step of its own.  A request     *)
(* slot is idle, in flight (pc names the await it is suspended at) or done *)
(* (status holds the HTTP status of the response).                         *)

Users == {"u1"}
Reqs == 1..MaxReqs

(* QueryMonitor.  Time is counted in minutes; an entry of the history    *)
(* carries the fields of QueryPattern that the monitor reads.            *)

SqlInjectionAttempts == 3
MaxHistorySize == 1000
RapidWindow == 1
RateLimitWindow == 10

sSearchQuery ==
    << "o", "p", "p", "o", "r", "t", "u", "n", "i", "t", "i", "e", "s", "_", "s", "e",
       "a", "r", "c", "h", "_", "q", "u", "e", "r", "y" >>
sSelectAll ==
    << "S", "E", "L", "E", "C", "T", " ", "*", " ", "F", "R", "O", "M", " ", "o", "p",
       "p", "o", "r", "t", "u", "n", "i", "t", "i", "e", "s" >>
sDropTest ==
    << "'", ";", " ", "D", "R", "O", "P", " ", "T", "A", "B", "L", "E", " ", "t", "e",
       "s", "t", ";", " ", "-", "-" >>
sApiSearch == << "/", "a", "p", "i", "/", "s", "e", "a", "r", "c", "h" >>

\* w occurs in cs at position i
MatchAt(cs, i, w) == i + Len(w) - 1 <= Len(cs) /\ SubSeq(cs, i, i + Len(w) - 1) = w

Contains(cs, w) == \E i \in 1..Len(cs) : MatchAt(cs, i, w)

\* /w1\s+w2/ (least = 1) or /w1\s*w2/ (least = 0)
MatchSpaced(cs, w1, w2, least) ==
    \E i \in 1..Len(cs) :
        /\ MatchAt(cs, i, w1)
        /\ \E j \in (i + Len(w1) + least)..Len(cs) :
              /\ \A k \in (i + Len(w1))..(j - 1) : IsSpace(cs[k])
              /\ MatchAt(cs, j, w2)

\* /w1.*w2/: w2 follows w1 on the same line
MatchThen(cs, w1, w2) ==
    \E i \in 1..Len(cs) :
        /\ MatchAt(cs, i, w1)
        /\ \E j \in (i + Len(w1))..Len(cs) :
              /\ MatchAt(cs, j, w2)
              /\ \A k \in i..j : cs[k] # "\n"

\* /'.*'.*or.*'.*'/ on the upper-cased text: within one line, two quotes,
\* then OR, then two quotes
MatchQuotedOr(cs) ==
    \E a \in 1..Len(cs) :
        /\ cs[a] = "'"
        /\ \E e \in a..Len(cs) :
              /\ cs[e] = "'"
              /\ \A k \in a..e : cs[k] # "\n"
              /\ \E c \in (a + 2)..(e - 3) :
                    /\ MatchAt(cs, c, <<"O", "R">>)
                    /\ \E b \in (a + 1)..(c - 1) : cs[b] = "'"
                    /\ \E d \in (c + 2)..(e - 1) : cs[d] = "'"

\* suspiciousPatterns, tested against the query and its upper-cased text
\* (the expressions carry the flag i)
MatchesPattern(query, up) ==
    \/ MatchSpaced(up, <<"U","N","I","O","N">>, <<"S","E","L","E","C","T">>, 1)
    \/ MatchSpaced(up, <<"I","N","S","E","R","T">>, <<"I","N","T","O">>, 1)
    \/ MatchSpaced(up, <<"D","E","L","E","T","E">>, <<"F","R","O","M">>, 1)
    \/ MatchSpaced(up, <<"D","R","O","P">>, <<"T","A","B","L","E">>, 1)
    \/ MatchSpaced(up, <<"A","L","T","E","R">>, <<"T","A","B","L","E">>, 1)
    \/ MatchSpaced(up, <<"E","X","E","C">>, <<"(">>, 0)
    \/ Contains(up, <<"X","P","_">>)
    \/ Contains(up, <<"S","P","_">>)
    \/ MatchQuotedOr(up)
    \/ MatchSpaced(query, <<";">>, <<"-","-">>, 0)
    \/ MatchThen(query, <<"/","*">>, <<"*","/">>)
    \/ MatchSpaced(up, <<"S","C","R","I","P","T">>, <<">">>, 0)

\* one of the twelve expressions matches the query
IsSuspicious(query) == \E up \in {ToUpperCase(query)} : MatchesPattern(query, up)

(* The two arrays of the monitor are held as runs: <<[e |-> x, n |-> 3]>> *)
(* is the array [x, x, x].  Adjacent runs hold different entries, so an   *)
(* array has one representation.                                          *)

\* the number of entries of arr that satisfy P
Count(arr, P(_)) ==
    LET s[k \in 0..Len(arr)] ==
            IF k = 0 THEN 0
            ELSE s[k - 1] + (IF P(arr[k].e) THEN arr[k].n ELSE 0)
    IN  s[Len(arr)]

\* arr.length
Size(arr) == Count(arr, LAMBDA e : TRUE)

\* arr.push(x)
Push(arr, x) ==
    IF arr # <<>> /\ arr[Len(arr)].e = x
    THEN [arr EXCEPT ![Len(arr)].n = @ + 1]
    ELSE Append(arr, [e |-> x, n |-> 1])

\* arr.shift()
Shift(arr) == IF arr[1].n > 1 THEN [arr EXCEPT ![1].n = @ - 1] ELSE Tail(arr)

\* arr.filter(P)
Filter(arr, P(_)) == SelectSeq(arr, LAMBDA r : P(r.e))

\* arr.slice(-k)
RECURSIVE LastN(_, _)
LastN(arr, k) ==
    IF arr = <<>> \/ k <= 0 THEN <<>>
    ELSE LET last == arr[Len(arr)]
         IN  IF last.n >= k THEN << [last EXCEPT !.n = k] >>
             ELSE Append(LastN(SubSeq(arr, 1, Len(arr) - 1), k - last.n), last)

\* shift once the array is longer than maxHistorySize
Bounded(pushed) == IF Size(pushed) > MaxHistorySize THEN Shift(pushed) ELSE pushed

\* push, then shift once the array is longer than maxHistorySize
PushBounded(arr, x) == Bounded(Push(arr, x))

\* QueryMonitor.logQuery: the history after the push
logQuery(pattern) == PushBounded(queryHistory, pattern)

\* getRecentQueries(userId, timeWindowMs).length on history h
getRecentQueries(h, userId, window) ==
    Count(h, LAMBDA q : q.timestamp >= now - window /\ q.userId = userId)

\* isUnusualQueryPattern, given the last 50 queries of the user
isUnusualAgainst(userHistory, pattern) ==
    LET n == Size(userHistory)
        total[k \in 0..Len(userHistory)] ==
            IF k = 0 THEN 0
            ELSE total[k - 1] + userHistory[k].n * Len(userHistory[k].e.query)
        endpoints == {userHistory[k].e.endpoint : k \in DOMAIN userHistory}
        uses == Count(userHistory, LAMBDA q : q.endpoint = pattern.endpoint)
    IN  IF n < 10 THEN FALSE
        ELSE IF Len(pattern.query) * n > total[Len(userHistory)] * 3 THEN TRUE
        ELSE uses <= 1 /\ Cardinality(endpoints) > 5

\* isUnusualQueryPattern on history h
isUnusualQueryPattern(h, pattern) ==
    IF pattern.userId = "undefined" THEN FALSE
    ELSE isUnusualAgainst(LastN(Filter(h, LAMBDA q : q.userId = pattern.userId), 50), pattern)

Activity(type, pattern) ==
    [type |-> type, userId |-> pattern.userId, ipAddress |-> pattern.ipAddress,
     timestamp |-> now]

\* analyzeQuery, the loop over suspiciousPatterns: it records one activity
\* and breaks at the first match
recordInjection(acts, pattern) ==
    IF IsSuspicious(pattern.query)
    THEN PushBounded(acts, Activity("sql_injection_attempt", pattern))
    ELSE acts

\* analyzeQuery, rapid queries of the user within the last minute
recordRapid(acts, h, pattern) ==
    IF getRecentQueries(h, pattern.userId, RapidWindow) > RapidQueries
    THEN PushBounded(acts, Activity("rate_limit_exceeded", pattern))
    ELSE acts

\* analyzeQuery, unusual pattern
recordUnusual(acts, h, pattern) ==
    IF isUnusualQueryPattern(h, pattern)
    THEN PushBounded(acts, Activity("unusual_query_pattern", pattern))
    ELSE acts

\* QueryMonitor.analyzeQuery on history h
analyzeQuery(h, pattern) ==
    \E a1 \in {recordInjection(suspiciousActivities, pattern)} :
    \E a2 \in {recordRapid(a1, h, pattern)} :
        suspiciousActivities' = recordUnusual(a2, h, pattern)

\* logQuery followed by analyzeQuery; matched tells whether the query
\* matched a suspicious pattern
logPattern(pattern, h, matched) ==
    /\ queryHistory' = h
    /\ analyzeQuery(h, pattern)
    /\ injectionLog' = IF matched
                       THEN Append(injectionLog, [userId |-> pattern.userId,
                                                  ipAddress |-> pattern.ipAddress,
                                                  timestamp |-> now])
                       ELSE injectionLog
    /\ UNCHANGED now

\* logDatabaseQuery(query, params, userId, tenantId, endpoint, ipAddress)
logDatabaseQuery(query, userId, endpoint, ipAddress) ==
    \E pattern \in { [userId |-> userId, ipAddress |-> ipAddress, query |-> query,
                      timestamp |-> now, endpoint |-> endpoint] } :
    \E h \in {logQuery(pattern)} :
    \E matched \in {IsSuspicious(query)} :
        logPattern(pattern, h, matched)

\* QueryMonitor.shouldRateLimit
shouldRateLimit(userId, ipAddress) ==
    LET recentWindow == now - RateLimitWindow
        sqlAttempts ==
            Count(suspiciousActivities,
                  LAMBDA activity :
                      /\ activity.timestamp >= recentWindow
                      /\ activity.type = "sql_injection_attempt"
                      /\ (activity.userId = userId \/ activity.ipAddress = ipAddress))
        recentQueries ==
            Count(queryHistory,
                  LAMBDA q :
                      /\ q.timestamp >= recentWindow
                      /\ (q.userId = userId \/ q.ipAddress = ipAddress))
    IN  IF sqlAttempts >= SqlInjectionAttempts THEN TRUE
        ELSE recentQueries > RapidQueries * 10

checkRateLimit(userId, ipAddress) == shouldRateLimit(userId, ipAddress)

\* Filters used by the requests: valid, valid with a minimum above the
\* field's ceiling and no maximum, rejected by the validator, and one that
\* makes the normalizer throw.
ValidFilters ==
    [EmptyFilters EXCEPT !.rate_range = Range(Num(5), Num(10)),
                         !.origin = Location(Str(sChicago), Str(sIllinois), Num(MaxRadius)),
                         !.page = Num(2), !.per_page = Num(50)]
MinOnlyFilters == [EmptyFilters EXCEPT !.rate_range = Range(Num(RateCeiling + 1), Undefined)]
RejectedFilters == [EmptyFilters EXCEPT !.per_page = Num(MaxPerPage + 1)]
ThrowingFilters == [EmptyFilters EXCEPT !.search_text = Num(123)]

\* A request body; json tells whether its text is valid JSON
Body(name, ft, f, d) ==
    [name |-> name, filters_t |-> ft, filters |-> f, is_default |-> d, json |-> TRUE]

\* The body '{ invalid json }'
MalformedBody == [Body(Undefined, "undefined", EmptyFilters, Undefined) EXCEPT !.json = FALSE]

SearchBodies ==
    { Body(Undefined, "undefined", EmptyFilters, Undefined), MalformedBody }
        \cup { Body(Undefined, "object", f, Undefined) :
                 f \in {ValidFilters, MinOnlyFilters, RejectedFilters, ThrowingFilters} }

CreateBodies ==
    { Body(Str(sAbc), "object", ValidFilters, Bool(TRUE)),
      Body(Str(sAbc), "object", ValidFilters, Undefined),
      Body(Str(sAbc), "object", MinOnlyFilters, Bool(FALSE)),
      Body(Str(sAbc), "undefined", EmptyFilters, Bool(TRUE)),
      Body(Undefined, "object", ValidFilters, Bool(TRUE)),
      Body(Str(sBlank), "object", ValidFilters, Bool(TRUE)),
      Body(Num(5), "object", ValidFilters, Bool(TRUE)),
      Body(Str(sAbc), "object", RejectedFilters, Bool(TRUE)),
      Body(Str(sAbc), "object", ThrowingFilters, Bool(TRUE)) }

UpdateBodies ==
    { Body(Undefined, "undefined", EmptyFilters, Bool(TRUE)),
      Body(Undefined, "undefined", EmptyFilters, Bool(FALSE)),
      Body(Str(sAbc), "object", ValidFilters, Undefined),
      Body(Undefined, "object", MinOnlyFilters, Bool(TRUE)),
      Body(Num(5), "undefined", EmptyFilters, Bool(TRUE)),
      Body(Undefined, "null", EmptyFilters, Bool(TRUE)),
      Body(Undefined, "object", RejectedFilters, Bool(TRUE)) }

\* A finished request keeps its kind, user and status only
Done(r, status) ==
    [IdleReq EXCEPT !.pc = "done", !.kind = reqs[r].kind, !.user = reqs[r].user,
                    !.status = status]

Respond(r, kind, u, status) ==
    [IdleReq EXCEPT !.pc = "done", !.kind = kind, !.user = u, !.status = status]

InFlight(r, kind, u, b, id, pc, nf) ==
    [ pc |-> pc, kind |-> kind, user |-> u, id |-> id,
      name |-> b.name, filters_t |-> b.filters_t, filters |-> b.filters,
      is_default |-> b.is_default, normalizedFilters |-> nf, status |-> 0,
      authHeader |-> Null, steps |-> {},
      page |-> Undefined, per_page |-> Undefined,
      before |-> IF kind = "search" THEN <<>> ELSE saved_searches ]

\* name?.trim() / name.trim() raises on a value that is neither undefined,
\* null nor a string
NameTrimThrows(name) == name.t \notin {"undefined", "null", "string"}

\* .update({ is_default: false }).eq('user_id', user.id).eq('is_default', true)
UnsetDefault(rows, u) ==
    [i \in DOMAIN rows |->
        IF rows[i].user_id = u /\ rows[i].is_default
        THEN [rows[i] EXCEPT !.is_default = FALSE] ELSE rows[i]]

\* .select('*').eq('id', params.id).eq('user_id', user.id).single()
Found(rows, id, u) == id \in DOMAIN rows /\ rows[id].user_id = u

(* POST /api/search *)

\* Authorization headers of the requests: none, other schemes, a bearer
\* token of no user, the bearer token of user u1
sBearer == << "B", "e", "a", "r", "e", "r", " " >>
sBearerU1 == << "B", "e", "a", "r", "e", "r", " ", "u", "1" >>
sBearerBad == << "B", "e", "a", "r", "e", "r", " ", "x", "9" >>
sBasicU1 == << "B", "a", "s", "i", "c", " ", "u", "1" >>
sLowerBearerU1 == << "b", "e", "a", "r", "e", "r", " ", "u", "1" >>
sU1 == << "u", "1" >>

AuthHeaders ==
    { Null, Str(sBearerU1), Str(sBearerBad), Str(sBasicU1), Str(sLowerBearerU1), Str(sU1) }

\* String.prototype.startsWith
StartsWith(cs, prefix) ==
    Len(cs) >= Len(prefix) /\ SubSeq(cs, 1, Len(prefix)) = prefix

\* cs.split(' ')[1]: the text between the first and the second space
SplitSecond(cs) ==
    LET first == CHOOSE i \in 1..Len(cs) :
                    cs[i] = " " /\ \A j \in 1..(i - 1) : cs[j] # " "
        rest  == SubSeq(cs, first + 1, Len(cs))
    IN  IF \E i \in 1..Len(rest) : rest[i] = " "
        THEN SubSeq(rest, 1, (CHOOSE i \in 1..Len(rest) :
                                 rest[i] = " " /\ \A j \in 1..(i - 1) : rest[j] # " ") - 1)
        ELSE rest

\* supabase.auth.getUser(token): the user the token belongs to, or none
getUser(token) == IF token = sU1 THEN "u1" ELSE "none"

\* Variant without the test of the 'Bearer ' prefix
Authenticate_anyscheme(h) ==
    IF h.t # "string" \/ ~(\E i \in 1..Len(h.s) : h.s[i] = " ")
    THEN "none"
    ELSE getUser(SplitSecond(h.s))

\* The authorization header is read and the token verified: the user, or
\* none when the handler answers 401
Authenticate(h) ==
    IF h.t # "string" \/ ~StartsWith(h.s, sBearer)
    THEN "none"
    ELSE getUser(SplitSecond(h.s))

\* The response of the search handler: the header received and the steps
\* the handler went through are kept with it
SearchRespond(r, h, u, status, steps) ==
    [Respond(r, "search", u, status) EXCEPT !.authHeader = h, !.steps = steps]

\* The filters validated and normalized: `filters || {}`
FiltersOf(b) == IF b.filters_t = "object" THEN b.filters ELSE EmptyFilters

\* From the start of the handler to `await query`, given the user that
\* getUser returned (u), the errors of validateSearchFilters (errs) and
\* the result of normalizeSearchFilters (n).  request.json() raises on a
\* body that is not JSON, and the catch block answers 500.
SearchHandle(r, h, b, u, errs, n) ==
    /\ reqs[r].pc = "idle"
    /\ IF u = "none"
       THEN /\ reqs' = [reqs EXCEPT ![r] = SearchRespond(r, h, u, 401, {})]
            /\ UNCHANGED monitorVars
       ELSE IF checkRateLimit(u, "ip1")
       THEN /\ reqs' = [reqs EXCEPT ![r] = SearchRespond(r, h, u, 429, {"rateLimit"})]
            /\ UNCHANGED monitorVars
       ELSE IF ~b.json
       THEN /\ reqs' = [reqs EXCEPT ![r] =
                           [SearchRespond(r, h, u, 500, {"rateLimit", "json"}) EXCEPT
                               !.filters_t = "malformed"]]
            /\ UNCHANGED monitorVars
       ELSE IF errs # <<>>
       THEN /\ reqs' = [reqs EXCEPT ![r] =
                           [SearchRespond(r, h, u, 400, {"rateLimit", "json"}) EXCEPT
                               !.filters = FiltersOf(b)]]
            /\ UNCHANGED monitorVars
       ELSE IF n.threw
       THEN /\ reqs' = [reqs EXCEPT ![r] =
                           [SearchRespond(r, h, u, 500, {"rateLimit", "json"}) EXCEPT
                               !.filters = FiltersOf(b)]]
            /\ UNCHANGED monitorVars
       ELSE /\ reqs' = [reqs EXCEPT ![r] =
                           [InFlight(r, "search", u, b, 0, "query", n.value) EXCEPT
                               !.authHeader = h,
                               !.steps = {"rateLimit", "json", "log"},
                               !.page = IF Truthy(n.value.page) THEN n.value.page ELSE Num(1),
                               !.per_page =
                                   MathMin(IF Truthy(n.value.per_page)
                                           THEN n.value.per_page ELSE Num(20),
                                           Num(100))]]
            /\ logDatabaseQuery(sSearchQuery, u, sApiSearch, "ip1")
    /\ UNCHANGED <<saved_searches, utilVars, clientVars>>

\* A request with any of the headers and bodies, while the monitor has
\* logged fewer than MaxLogged queries
SearchBegin(r) ==
    /\ Size(queryHistory) < MaxLogged
    /\ \E h \in AuthHeaders, b \in SearchBodies :
          SearchHandle(r, h, b, Authenticate(h), validateSearchFilters(FiltersOf(b)),
                       normalizeSearchFilters(FiltersOf(b)))

\* `await query` returns: an error gives 500, otherwise the results carry
\* page, per_page and filters_applied
SearchExecute(r) ==
    /\ reqs[r].pc = "query"
    /\ \E ok \in BOOLEAN :
        reqs' = [reqs EXCEPT ![r] =
                    [Done(r, IF ok THEN 200 ELSE 500) EXCEPT
                        !.normalizedFilters = reqs[r].normalizedFilters,
                        !.filters = reqs[r].filters,
                        !.authHeader = reqs[r].authHeader,
                        !.steps = reqs[r].steps \cup {"query"},
                        !.page = IF ok THEN reqs[r].page ELSE Undefined,
                        !.per_page = IF ok THEN reqs[r].per_page ELSE Undefined]]
    /\ UNCHANGED <<saved_searches, monitorVars, utilVars, clientVars>>

(* POST /api/saved-searches *)

\* From the start of the handler to the first database call
CreateBegin(r) ==
    /\ reqs[r].pc = "idle"
    /\ Len(saved_searches)
          + Cardinality({q \in Reqs : reqs[q].kind = "create" /\ reqs[q].pc \in {"unset", "insert"}})
          < MaxRows
    /\ \E u \in Users \cup {"none"}, b \in CreateBodies :
        LET f == IF b.filters_t = "object" THEN b.filters ELSE EmptyFilters
            n == normalizeSearchFilters(f)
            d == IF b.is_default.t = "undefined" THEN Bool(FALSE) ELSE b.is_default
        IN  IF u = "none"
            THEN reqs' = [reqs EXCEPT ![r] = Respond(r, "create", u, 401)]
            ELSE IF NameTrimThrows(b.name)
            THEN reqs' = [reqs EXCEPT ![r] = Respond(r, "create", u, 500)]
            ELSE IF ~(IsStr(b.name) /\ Trim(b.name.s) # <<>>)
            THEN reqs' = [reqs EXCEPT ![r] = Respond(r, "create", u, 400)]
            ELSE IF validateSearchFilters(f) # <<>>
            THEN reqs' = [reqs EXCEPT ![r] = Respond(r, "create", u, 400)]
            ELSE IF n.threw
            THEN reqs' = [reqs EXCEPT ![r] = Respond(r, "create", u, 500)]
            ELSE reqs' = [reqs EXCEPT ![r] =
                            InFlight(r, "create", u, [b EXCEPT !.is_default = d], 0,
                                     IF Truthy(d) THEN "unset" ELSE "insert", n.value)]
    /\ UNCHANGED <<saved_searches, monitorVars, utilVars, clientVars>>

\* if (is_default) await ...update({ is_default: false })...
CreateUnset(r) ==
    /\ reqs[r].kind = "create" /\ reqs[r].pc = "unset"
    /\ saved_searches' = UnsetDefault(saved_searches, reqs[r].user)
    /\ reqs' = [reqs EXCEPT ![r].pc = "insert"]
    /\ UNCHANGED <<monitorVars, utilVars, clientVars>>

\* await ...insert({...}).select().single(), then the response
CreateInsert(r) ==
    /\ reqs[r].kind = "create" /\ reqs[r].pc = "insert"
    /\ \/ /\ saved_searches' = Append(saved_searches,
                [ user_id |-> reqs[r].user,
                  name |-> Str(Trim(reqs[r].name.s)),
                  filters |-> reqs[r].normalizedFilters,
                  is_default |-> Truthy(reqs[r].is_default) ])
          /\ reqs' = [reqs EXCEPT ![r] = Done(r, 201)]
       \/ /\ UNCHANGED saved_searches
          /\ reqs' = [reqs EXCEPT ![r] = Done(r, 500)]
    /\ UNCHANGED <<monitorVars, utilVars, clientVars>>

(* PUT /api/saved-searches/[id] *)

\* From the start of the handler to the select of the existing row
UpdateBegin(r) ==
    /\ reqs[r].pc = "idle"
    /\ \E u \in Users \cup {"none"}, b \in UpdateBodies, id \in 1..MaxRows :
        IF u = "none"
        THEN reqs' = [reqs EXCEPT ![r] = Respond(r, "update", u, 401)]
        ELSE IF b.filters_t = "object" /\ validateSearchFilters(b.filters) # <<>>
        THEN reqs' = [reqs EXCEPT ![r] = Respond(r, "update", u, 400)]
        ELSE reqs' = [reqs EXCEPT ![r] = InFlight(r, "update", u, b, id, "select", EmptyFilters)]
    /\ UNCHANGED <<saved_searches, monitorVars, utilVars, clientVars>>

\* Prepare update data: what runs between the last read or unset and the
\* final update; it raises when name.trim or normalizeSearchFilters raises.
PrepareThrows(q) ==
    \/ q.name.t # "undefined" /\ q.name.t # "string"
    \/ q.filters_t = "null"
    \/ q.filters_t = "object" /\ normalizeSearchFilters(q.filters).threw

Prepared(q) ==
    IF PrepareThrows(q)
    THEN [IdleReq EXCEPT !.pc = "done", !.kind = q.kind, !.user = q.user, !.status = 500]
    ELSE [q EXCEPT !.pc = "update",
                   !.normalizedFilters =
                       IF q.filters_t = "object"
                       THEN normalizeSearchFilters(q.filters).value ELSE EmptyFilters]

\* The select of the existing row returns
UpdateSelect(r) ==
    /\ reqs[r].kind = "update" /\ reqs[r].pc = "select"
    /\ IF ~Found(saved_searches, reqs[r].id, reqs[r].user)
       THEN reqs' = [reqs EXCEPT ![r] = Done(r, 404)]
       ELSE IF Truthy(reqs[r].is_default) /\ ~saved_searches[reqs[r].id].is_default
       THEN reqs' = [reqs EXCEPT ![r].pc = "unset"]
       ELSE reqs' = [reqs EXCEPT ![r] = Prepared(reqs[r])]
    /\ UNCHANGED <<saved_searches, monitorVars, utilVars, clientVars>>

\* await ...update({ is_default: false })..., then the update data
UpdateUnset(r) ==
    /\ reqs[r].kind = "update" /\ reqs[r].pc = "unset"
    /\ saved_searches' = UnsetDefault(saved_searches, reqs[r].user)
    /\ reqs' = [reqs EXCEPT ![r] = Prepared(reqs[r])]
    /\ UNCHANGED <<monitorVars, utilVars, clientVars>>

\* await ...update(updateData).eq('id', params.id).eq('user_id', user.id)
UpdateWrite(r) ==
    /\ reqs[r].kind = "update" /\ reqs[r].pc = "update"
    /\ LET q == reqs[r]
           row == saved_searches[q.id]
       IN  \/ /\ Found(saved_searches, q.id, q.user)
              /\ saved_searches' = [saved_searches EXCEPT ![q.id] =
                    [ user_id |-> row.user_id,
                      name |-> IF q.name.t # "undefined" THEN Str(Trim(q.name.s)) ELSE row.name,
                      filters |-> IF q.filters_t # "undefined" THEN q.normalizedFilters
                                  ELSE row.filters,
                      is_default |-> IF q.is_default.t # "undefined" THEN Truthy(q.is_default)
                                     ELSE row.is_default ]]
              /\ reqs' = [reqs EXCEPT ![r] = Done(r, 200)]
           \/ /\ UNCHANGED saved_searches
              /\ reqs' = [reqs EXCEPT ![r] = Done(r, 500)]
    /\ UNCHANGED <<monitorVars, utilVars, clientVars>>

\* The response has been sent; the slot takes the next request
Finish(r) ==
    /\ reqs[r].pc = "done"
    /\ reqs' = [reqs EXCEPT ![r] = IdleReq]
    /\ UNCHANGED <<saved_searches, monitorVars, utilVars, clientVars>>

\* The utilities have not been called and the routes are idle
QuietInit ==
    /\ filters = EmptyFilters
    /\ errors = <<>>
    /\ normalized = NotCalled
    /\ renormalized = NotCalled
    /\ revalidated = <<>>
    /\ upc = "input"
    /\ RoutesInit

Init == QuietInit /\ ClientInit

Next ==
    \E r \in Reqs :
        \/ SearchBegin(r)
        \/ SearchExecute(r)
        \/ CreateBegin(r)
        \/ CreateUnset(r)
        \/ CreateInsert(r)
        \/ UpdateBegin(r)
        \/ UpdateSelect(r)
        \/ UpdateUnset(r)
        \/ UpdateWrite(r)
        \/ Finish(r)

Spec == Init /\ [][Next]_vars

\* The search route alone: it shares no state with the saved-search routes
SearchNext ==
    \E r \in Reqs :
        \/ SearchBegin(r)
        \/ SearchExecute(r)
        \/ Finish(r)

SpecSearch == Init /\ [][SearchNext]_vars

\* POST /api/saved-searches alone, its requests interleaved at every await
CreateNext ==
    \E r \in Reqs :
        \/ CreateBegin(r)
        \/ CreateUnset(r)
        \/ CreateInsert(r)
        \/ Finish(r)

SpecCreate == Init /\ [][CreateNext]_vars

----------------------------------------------------------------------------
(* Properties of the route handlers (specification Spec)                   *)

\* No out-of-range value: every numeric bound within [0, ceiling], every
\* radius within [0, 500], page >= 1 and per_page within [1, 100]
InRange(f) ==
    /\ \A fld \in RangeFields :
          /\ IsNum(f[fld].min) => (0 <= f[fld].min.n /\ f[fld].min.n <= Ceiling(fld))
          /\ IsNum(f[fld].max) => (0 <= f[fld].max.n /\ f[fld].max.n <= Ceiling(fld))
    /\ \A fld \in LocationFields :
          IsNum(f[fld].radius) => (0 <= f[fld].radius.n /\ f[fld].radius.n <= MaxRadius)
    /\ IsNum(f.page) => f.page.n >= 1
    /\ IsNum(f.per_page) => (1 <= f.per_page.n /\ f.per_page.n <= MaxPerPage)

\* The filters of request slot r have been handed to the query builder
HandedToQuery(r) ==
    reqs[r].kind = "search" /\ (reqs[r].pc = "query" \/ reqs[r].status = 200)

\* C1: every filters value handed to the query builder or written to
\* saved_searches is the output of normalizeSearchFilters and holds no
\* out-of-range value.
C1_QueryLayerInRange ==
    /\ \A r \in Reqs :
          /\ reqs[r].pc \in {"query", "unset", "insert", "update"}
                => reqs[r].normalizedFilters =
                      normalizeSearchFilters(reqs[r].filters).value
          /\ HandedToQuery(r) => InRange(reqs[r].normalizedFilters)
    /\ \A i \in DOMAIN saved_searches : InRange(saved_searches[i].filters)

\* C2: under every interleaving of a user's create and update requests, at
\* most one of the user's saved searches has is_default = true.
C2_AtMostOneDefault ==
    \A u \in Users :
        Cardinality({i \in DOMAIN saved_searches :
                        saved_searches[i].user_id = u /\ saved_searches[i].is_default}) <= 1

\* The headers that authenticate a user: 'Bearer ' followed by the token of
\* a user
ValidHeaders == { Str(sBearerU1) }

SearchAnswered(r) ==
    /\ reqs[r].kind = "search" /\ reqs[r].pc = "done"
    /\ reqs[r].authHeader \in ValidHeaders

\* C21: POST /api/search answers an authenticated request whose body is not
\* valid JSON with status 400.
C21_MalformedJsonIs400 ==
    \A r \in Reqs :
        (SearchAnswered(r) /\ reqs[r].filters_t = "malformed") => reqs[r].status = 400

\* C22: an authenticated search request that asks for a per_page above 100
\* is answered with a result whose per_page is at most 100.
C22_PerPageCapped ==
    \A r \in Reqs :
        (SearchAnswered(r) /\ reqs[r].status \notin {429, 500}
            /\ IsNum(reqs[r].filters.per_page) /\ reqs[r].filters.per_page.n > MaxPerPage)
           => (IsNum(reqs[r].per_page) /\ reqs[r].per_page.n <= MaxPerPage)

\* The saved-search routes called by one client that waits for each
\* response before it sends the next request
Sequential(r) == \A q \in Reqs \ {r} : reqs[q].pc \in {"idle", "done"}

SavedNext ==
    \E r \in Reqs :
        \/ Sequential(r) /\ CreateBegin(r)
        \/ Sequential(r) /\ CreateUnset(r)
        \/ Sequential(r) /\ CreateInsert(r)
        \/ Sequential(r) /\ UpdateBegin(r)
        \/ Sequential(r) /\ UpdateSelect(r)
        \/ Sequential(r) /\ UpdateUnset(r)
        \/ Sequential(r) /\ UpdateWrite(r)
        \/ Sequential(r) /\ Finish(r)

SpecSaved == Init /\ [][SavedNext]_vars

\* The rows stored when the handler of request r started
RowsBefore(r) == IF reqs[r].pc = "idle" THEN saved_searches ELSE reqs[r].before

\* C25: when a create or update request ends with an error response (a
\* status other than 201 and 200), the stored saved searches are those of
\* the moment the request started.
C25_ErrorLeavesRowsUnchanged ==
    [][ \A r \in Reqs :
          (reqs[r].pc # "done" /\ reqs'[r].pc = "done"
              /\ reqs'[r].kind \in {"create", "update"}
              /\ reqs'[r].status \notin {200, 201})
             => saved_searches' = RowsBefore(r) ]_vars

(* One user who keeps sending authenticated, valid search requests, all   *)
(* within the same minute.  The handler steps and the client are fair: a  *)
(* response is awaited and the next request is sent.                      *)

VolumeHeader == Str(sBearerU1)
VolumeBody == Body(Undefined, "object", ValidFilters, Undefined)
VolumeUser == Authenticate(VolumeHeader)
VolumeErrors == validateSearchFilters(FiltersOf(VolumeBody))
VolumeNormalized == normalizeSearchFilters(FiltersOf(VolumeBody))

VolumeSearch(r) ==
    SearchHandle(r, VolumeHeader, VolumeBody, VolumeUser, VolumeErrors, VolumeNormalized)

VolumeNext ==
    \E r \in Reqs :
        \/ VolumeSearch(r)
        \/ SearchExecute(r)
        \/ Finish(r)

SpecVolume == Init /\ [][VolumeNext]_vars /\ WF_vars(VolumeNext)

\* C26: a user who sends more than 1000 authenticated, valid search
\* requests within 10 minutes is eventually answered with status 429.
C26_VolumeIsLimited == <>(\E r \in Reqs : reqs[r].kind = "search" /\ reqs[r].status = 429)

----------------------------------------------------------------------------
(* The monitor driven directly through logDatabaseQuery, all within one    *)
(* minute: the first MaxPrefix calls are ordinary or injection queries of  *)
(* users u1 and u2, with the address ip1 or none, every later one an       *)
(* ordinary query of user u1 without an address.  The history and the      *)
(* activities are bounded by the monitor itself, so the run needs no bound *)
(* of its own.                                                             *)

MaxPrefix == 3

FloodCalls ==
    IF Size(queryHistory) < MaxPrefix
    THEN { <<"u1", sDropTest, "ip1">>, <<"u2", sDropTest, "ip1">>,
           <<"u2", sSelectAll, "undefined">> }
    ELSE { <<"u1", sSelectAll, "undefined">> }

FloodLog ==
    /\ \E c \in FloodCalls : logDatabaseQuery(c[2], c[1], sApiSearch, c[3])
    /\ UNCHANGED <<saved_searches, reqs, utilVars, clientVars>>

FloodNext == FloodLog

SpecFlood == Init /\ [][FloodNext]_vars

\* An entry carries user u or address ip
Carries(e, u, ip) == e.userId = u \/ e.ipAddress = ip

\* Queries matching a suspicious pattern logged within the last 10 minutes
\* with user u or address ip
RecentInjections(u, ip) ==
    {i \in DOMAIN injectionLog :
        /\ injectionLog[i].timestamp >= now - RateLimitWindow
        /\ Carries(injectionLog[i], u, ip)}

\* No query has been logged for user u or address ip (the history has not
\* dropped an entry yet)
NothingLoggedFor(u, ip) ==
    /\ Size(queryHistory) < MaxHistorySize
    /\ Count(queryHistory, LAMBDA q : Carries(q, u, ip)) = 0

\* C23: checkRateLimit(userId, ipAddress) is false while no query has been
\* logged for that user or address, and true once at least 3 queries that
\* match an SQL-injection pattern have been logged within the last 10
\* minutes with that userId or that ipAddress.
C23_InjectionRateLimit ==
    \A u \in {"u1", "u2", "undefined"} : \A ip \in {"ip1", "ip2", "undefined"} :
        /\ NothingLoggedFor(u, ip) => ~checkRateLimit(u, ip)
        /\ Cardinality(RecentInjections(u, ip)) >= SqlInjectionAttempts
              => checkRateLimit(u, ip)

\* Ordinary queries of user u in the history, logged within the last minute
RecentOrdinary(u) ==
    Count(queryHistory,
          LAMBDA q : q.userId = u /\ q.timestamp >= now - RapidWindow /\ q.query = sSelectAll)

\* C24: after a user has logged 150 ordinary queries within one minute,
\* checkRateLimit for that user is true, while for a user who logged only a
\* few ordinary queries it is false.
C24_RapidUserLimited ==
    \A u \in {"u1", "u2"} :
        /\ RecentOrdinary(u) >= 150 => checkRateLimit(u, "undefined")
        /\ (RecentOrdinary(u) \in 1..MaxPrefix /\ injectionLog = <<>>)
              => ~checkRateLimit(u, "undefined")

----------------------------------------------------------------------------
(* sanitizeForSql of the search route, applied to one argument             *)

MaxSanLen == 4

\* s.replace(/w/g, by): the matches are taken from left to right and do
\* not overlap
RECURSIVE ReplaceAll(_, _, _)
ReplaceAll(cs, w, by) ==
    IF cs = <<>> THEN <<>>
    ELSE IF MatchAt(cs, 1, w)
    THEN by \o ReplaceAll(SubSeq(cs, Len(w) + 1, Len(cs)), w, by)
    ELSE <<Head(cs)>> \o ReplaceAll(Tail(cs), w, by)

sanitizeForSql(input) ==
    IF ~Truthy(input) \/ input.t # "string" THEN <<>>
    ELSE ReplaceAll(
           ReplaceAll(
             ReplaceAll(
               ReplaceAll(
                 ReplaceAll(
                   ReplaceAll(input.s, <<"\\">>, <<"\\", "\\">>),
                   <<"'">>, <<"'", "'">>),
                 <<";">>, <<>>),
               <<"-", "-">>, <<>>),
             <<"/", "*">>, <<>>),
           <<"*", "/">>, <<>>)

\* The arguments: every string of at most MaxSanLen characters over the
\* characters the function treats and one it does not, and two values that
\* are no strings
SanChars == {"\\", "'", ";", "-", "/", "*", "a"}
SanInputs == {Str(cs) : cs \in SeqsUpTo(SanChars, MaxSanLen)} \cup {Undefined, Num(5)}

SanitizeInit ==
    /\ QuietInit /\ HookInit /\ UseInit /\ UrlInit
    /\ sanInput \in SanInputs
    /\ sanOutput = [called |-> FALSE, value |-> <<>>]

Sanitize ==
    /\ ~sanOutput.called
    /\ sanOutput' = [called |-> TRUE, value |-> sanitizeForSql(sanInput)]
    /\ UNCHANGED <<sanInput, hookVars, useVars, urlVars, routeVars, utilVars>>

SanitizeNext == Sanitize

SpecSanitize == SanitizeInit /\ [][SanitizeNext]_vars

\* Every single quote of cs is part of a doubled pair: the quotes come in
\* runs of even length
QuotesDoubled(cs) ==
    \A i \in 1..Len(cs) : \A j \in i..Len(cs) :
        ( /\ \A k \in i..j : cs[k] = "'"
          /\ (i = 1 \/ cs[i - 1] # "'")
          /\ (j = Len(cs) \/ cs[j + 1] # "'") )
        => (j - i + 1) % 2 = 0

\* C27: for every input string the output of sanitizeForSql contains no
\* ';', no '--', no '/*' and no '*/', and every single quote in it is part
\* of a doubled pair.
C27_SanitizedIsClean ==
    sanOutput.called =>
        /\ ~Contains(sanOutput.value, <<";">>)
        /\ ~Contains(sanOutput.value, <<"-", "-">>)
        /\ ~Contains(sanOutput.value, <<"/", "*">>)
        /\ ~Contains(sanOutput.value, <<"*", "/">>)
        /\ QuotesDoubled(sanOutput.value)

----------------------------------------------------------------------------
(* The useSearch hook: executeSearch and the arrival of the responses.     *)
(* A call is numbered by its position in searchCalls; the results a call   *)
(* receives are named by that number.                                      *)

MaxSearches == 4

\* executeSearch up to `await searchOpportunities(state.filters)`
ExecuteSearch ==
    /\ Len(searchCalls) < MaxSearches
    /\ searchCalls' = Append(searchCalls, "pending")
    /\ hookState' = [hookState EXCEPT !.loading = TRUE, !.error = FALSE]
    /\ UNCHANGED <<sanVars, useVars, urlVars, routeVars, utilVars>>

\* The promise of call i resolves: setState({ ...prev, results, loading: false })
SearchResolved(i) ==
    /\ i \in DOMAIN searchCalls /\ searchCalls[i] = "pending"
    /\ searchCalls' = [searchCalls EXCEPT ![i] = "resolved"]
    /\ hookState' = [hookState EXCEPT !.results = i, !.loading = FALSE]
    /\ UNCHANGED <<sanVars, useVars, urlVars, routeVars, utilVars>>

\* The promise of call i rejects: setState({ ...prev, loading: false, error })
SearchRejected(i) ==
    /\ i \in DOMAIN searchCalls /\ searchCalls[i] = "pending"
    /\ searchCalls' = [searchCalls EXCEPT ![i] = "rejected"]
    /\ hookState' = [hookState EXCEPT !.loading = FALSE, !.error = TRUE]
    /\ UNCHANGED <<sanVars, useVars, urlVars, routeVars, utilVars>>

HookNext ==
    \/ ExecuteSearch
    \/ \E i \in 1..MaxSearches : SearchResolved(i)
    \/ \E i \in 1..MaxSearches : SearchRejected(i)

SpecHook == Init /\ [][HookNext]_vars

\* No search is in flight
NoneInFlight == \A i \in DOMAIN searchCalls : searchCalls[i] # "pending"

\* C28: once no search is in flight, the results held in the hook's state
\* are those of the most recently started search (here: when that search
\* received results).
C28_LatestSearchWins ==
    (searchCalls # <<>> /\ NoneInFlight /\ searchCalls[Len(searchCalls)] = "resolved")
        => hookState.results = Len(searchCalls)

----------------------------------------------------------------------------
(* POST /api/saved-searches/[id]: the use requests on one saved search of  *)
(* the caller.  Every database call is a step of its own.                  *)

MaxUses == 3

\* Up to `await supabase.auth.getUser(token)` and its answer
UseBegin(r) ==
    /\ useReqs[r].pc = "idle"
    /\ completedUses + Cardinality({q \in Reqs : useReqs[q].pc \in {"select", "update"}})
          < MaxUses
    /\ \E u \in Users \cup {"none"} :
          useReqs' = [useReqs EXCEPT ![r] =
                         IF u = "none" THEN [pc |-> "done", read |-> 0, status |-> 401]
                         ELSE [pc |-> "select", read |-> 0, status |-> 0]]
    /\ UNCHANGED <<use_count, completedUses, sanVars, hookVars, urlVars, routeVars, utilVars>>

\* .select('use_count').eq('id', params.id).eq('user_id', user.id).single()
UseSelect(r) ==
    /\ useReqs[r].pc = "select"
    /\ useReqs' = [useReqs EXCEPT ![r] = [pc |-> "update", read |-> use_count, status |-> 0]]
    /\ UNCHANGED <<use_count, completedUses, sanVars, hookVars, urlVars, routeVars, utilVars>>

\* .update({ use_count: (currentSearch?.use_count || 0) + 1, ... }), then
\* the response
UseUpdate(r) ==
    /\ useReqs[r].pc = "update"
    /\ \/ /\ use_count' = (IF useReqs[r].read # 0 THEN useReqs[r].read ELSE 0) + 1
          /\ completedUses' = completedUses + 1
          /\ useReqs' = [useReqs EXCEPT ![r] = [pc |-> "done", read |-> 0, status |-> 200]]
       \/ /\ UNCHANGED <<use_count, completedUses>>
          /\ useReqs' = [useReqs EXCEPT ![r] = [pc |-> "done", read |-> 0, status |-> 500]]
    /\ UNCHANGED <<sanVars, hookVars, urlVars, routeVars, utilVars>>

\* The response has been sent; the slot takes the next request
UseFinish(r) ==
    /\ useReqs[r].pc = "done"
    /\ useReqs' = [useReqs EXCEPT ![r] = IdleUse]
    /\ UNCHANGED <<use_count, completedUses, sanVars, hookVars, urlVars, routeVars, utilVars>>

UseNext ==
    \E r \in Reqs :
        \/ UseBegin(r)
        \/ UseSelect(r)
        \/ UseUpdate(r)
        \/ UseFinish(r)

SpecUse == Init /\ [][UseNext]_vars

\* C29: every completed use request raises use_count by exactly 1, so n
\* completed requests raise it by n under any interleaving.
C29_UseCountCounts == use_count = completedUses

----------------------------------------------------------------------------
(* filtersToQueryParams and queryParamsToFilters.  URLSearchParams is a    *)
(* record of the parameter names used; a parameter that is not set reads   *)
(* as null.                                                                *)

DigitChar(d) == AsciiOrder[CharCode("0") + d]

\* Number.prototype.toString of an integer
RECURSIVE NaturalToString(_)
NaturalToString(k) ==
    IF k < 10 THEN <<DigitChar(k)>>
    ELSE Append(NaturalToString(k \div 10), DigitChar(k % 10))

\* String(v), v.toString(): what URLSearchParams.set stores
ToStringJs(v) ==
    CASE v.t = "string"  -> v.s
      [] v.t = "number"  -> IF v.n < 0 THEN <<"-">> \o NaturalToString(0 - v.n)
                            ELSE NaturalToString(v.n)
      [] v.t = "boolean" -> IF v.n = 1 THEN <<"t", "r", "u", "e">>
                            ELSE <<"f", "a", "l", "s", "e">>
      [] v.t = "nan"     -> <<"N", "a", "N">>
      [] v.t = "null"    -> <<"n", "u", "l", "l">>
      [] OTHER           -> <<"u", "n", "d", "e", "f", "i", "n", "e", "d">>

\* if (v) params.set(name, v)
ParamOf(v) == IF Truthy(v) THEN Str(ToStringJs(v)) ELSE Null

\* xs.join(',')
RECURSIVE Join(_)
Join(xs) ==
    IF xs = <<>> THEN <<>>
    ELSE IF Len(xs) = 1 THEN ToStringJs(xs[1])
    ELSE Join(SubSeq(xs, 1, Len(xs) - 1)) \o <<",">> \o ToStringJs(xs[Len(xs)])

\* if (arr?.length) params.set(name, arr.join(','))
ParamOfArray(arr) == IF Len(arr.items) > 0 THEN Str(Join(arr.items)) ELSE Null

sTrue == <<"t", "r", "u", "e">>

filtersToQueryParams(f) ==
    [ origin_city   |-> ParamOf(f.origin.city),
      origin_state  |-> ParamOf(f.origin.state),
      origin_radius |-> ParamOf(f.origin.radius),
      dest_city     |-> ParamOf(f.destination.city),
      dest_state    |-> ParamOf(f.destination.state),
      dest_radius   |-> ParamOf(f.destination.radius),
      pickup_from   |-> ParamOf(f.pickup_date_range.from),
      pickup_to     |-> ParamOf(f.pickup_date_range.to),
      delivery_from |-> ParamOf(f.delivery_date_range.from),
      delivery_to   |-> ParamOf(f.delivery_date_range.to),
      rate_min      |-> ParamOf(f.rate_range.min),
      rate_max      |-> ParamOf(f.rate_range.max),
      weight_min    |-> ParamOf(f.weight_range.min),
      weight_max    |-> ParamOf(f.weight_range.max),
      equipment     |-> ParamOfArray(f.equipment_types),
      cargo         |-> ParamOfArray(f.cargo_types),
      exclude_locked |-> IF Truthy(f.exclude_locked) THEN Str(sTrue) ELSE Null,
      only_no_bids  |-> IF Truthy(f.only_no_bids) THEN Str(sTrue) ELSE Null,
      q             |-> ParamOf(f.search_text),
      sort          |-> ParamOf(f.sort_by),
      order         |-> ParamOf(f.sort_order),
      page          |-> ParamOf(f.page),
      per_page      |-> ParamOf(f.per_page) ]

\* The length of the run of digits at the start of cs
RECURSIVE DigitPrefix(_)
DigitPrefix(cs) ==
    IF cs # <<>> /\ IsDigit(Head(cs)) THEN 1 + DigitPrefix(Tail(cs)) ELSE 0

\* parseInt(s) and, on text without a fraction or an exponent, parseFloat(s):
\* leading white space, an optional sign and the digits that follow
parseInt(cs) ==
    LET t == TrimStart(cs)
        neg == t # <<>> /\ Head(t) = "-"
        body == IF t # <<>> /\ Head(t) \in {"-", "+"} THEN Tail(t) ELSE t
        k == DigitPrefix(body)
    IN  IF k = 0 THEN NaN
        ELSE Num((IF neg THEN -1 ELSE 1) * DigitsValue(SubSeq(body, 1, k)))

parseFloat(cs) == parseInt(cs)

\* s.split(',')
RECURSIVE Split(_)
Split(cs) ==
    IF \A i \in 1..Len(cs) : cs[i] # "," THEN << Str(cs) >>
    ELSE LET i == CHOOSE j \in 1..Len(cs) :
                      cs[j] = "," /\ \A k \in 1..(j - 1) : cs[k] # ","
         IN  << Str(SubSeq(cs, 1, i - 1)) >> \o Split(SubSeq(cs, i + 1, Len(cs)))

\* ...(p && { key: p })
Got(p) == IF Truthy(p) THEN p ELSE Undefined
GotInt(p) == IF Truthy(p) THEN parseInt(p.s) ELSE Undefined
GotFloat(p) == IF Truthy(p) THEN parseFloat(p.s) ELSE Undefined

queryParamsToFilters(params) ==
    [ EmptyFilters EXCEPT
      !.origin = IF Truthy(params.origin_city) \/ Truthy(params.origin_state)
                      \/ Truthy(params.origin_radius)
                 THEN Location(Got(params.origin_city), Got(params.origin_state),
                               GotInt(params.origin_radius))
                 ELSE NoLocation,
      !.destination = IF Truthy(params.dest_city) \/ Truthy(params.dest_state)
                           \/ Truthy(params.dest_radius)
                      THEN Location(Got(params.dest_city), Got(params.dest_state),
                                    GotInt(params.dest_radius))
                      ELSE NoLocation,
      !.pickup_date_range = IF Truthy(params.pickup_from) \/ Truthy(params.pickup_to)
                            THEN DateRange(Got(params.pickup_from), Got(params.pickup_to))
                            ELSE NoDateRange,
      !.delivery_date_range = IF Truthy(params.delivery_from) \/ Truthy(params.delivery_to)
                              THEN DateRange(Got(params.delivery_from), Got(params.delivery_to))
                              ELSE NoDateRange,
      !.rate_range = IF Truthy(params.rate_min) \/ Truthy(params.rate_max)
                     THEN Range(GotFloat(params.rate_min), GotFloat(params.rate_max))
                     ELSE NoRange,
      !.weight_range = IF Truthy(params.weight_min) \/ Truthy(params.weight_max)
                       THEN Range(GotFloat(params.weight_min), GotFloat(params.weight_max))
                       ELSE NoRange,
      !.equipment_types = IF Truthy(params.equipment) THEN Array(Split(params.equipment.s))
                          ELSE NoArray,
      !.cargo_types = IF Truthy(params.cargo) THEN Array(Split(params.cargo.s)) ELSE NoArray,
      !.exclude_locked = IF params.exclude_locked = Str(sTrue) THEN Bool(TRUE) ELSE Undefined,
      !.only_no_bids = IF params.only_no_bids = Str(sTrue) THEN Bool(TRUE) ELSE Undefined,
      !.search_text = Got(params.q),
      !.sort_by = Got(params.sort),
      !.sort_order = Got(params.order),
      !.page = GotInt(params.page),
      !.per_page = GotInt(params.per_page) ]

\* syncFiltersToUrl on the filters normalizeSearchFilters returned
SyncFiltersToUrl ==
    /\ upc = "normalized"
    /\ ~normalized.threw
    /\ urlParams' = filtersToQueryParams(normalized.value)
    /\ upc' = "synced"
    /\ UNCHANGED <<filters, errors, normalized, renormalized, revalidated, reloaded,
                   sanVars, hookVars, useVars, routeVars>>

\* loadFiltersFromUrl: the filters read back from the URL
LoadFiltersFromUrl ==
    /\ upc = "synced"
    /\ reloaded' = [threw |-> FALSE, value |-> queryParamsToFilters(urlParams)]
    /\ upc' = "loaded"
    /\ UNCHANGED <<filters, errors, normalized, renormalized, revalidated, urlParams,
                   sanVars, hookVars, useVars, routeVars>>

UrlNext == Validate \/ Normalize \/ SyncFiltersToUrl \/ LoadFiltersFromUrl

SpecUrl == UtilsInit /\ [][UrlNext]_vars

\* Two filters values hold the same information in a field: an absent
\* sub-object counts as one without properties, an absent array as an empty
\* one, and a flag by its truth value
SameField(f, g, field) ==
    CASE field \in LocationFields ->
            /\ f[field].city = g[field].city
            /\ f[field].state = g[field].state
            /\ f[field].radius = g[field].radius
      [] field \in DateFields ->
            f[field].from = g[field].from /\ f[field].to = g[field].to
      [] field \in RangeFields ->
            f[field].min = g[field].min /\ f[field].max = g[field].max
      [] field \in ArrayFields ->
            f[field].items = g[field].items
      [] field \in {"exclude_locked", "only_no_bids", "only_my_bids", "exclude_my_bids"} ->
            Truthy(f[field]) = Truthy(g[field])
      [] OTHER -> f[field] = g[field]

\* An input within the rules of the validator, with well-typed flags and
\* sort fields
WellFormed(f) ==
    /\ OthersOk(f, "none")
    /\ \A fld \in {"exclude_locked", "only_no_bids", "only_my_bids", "exclude_my_bids"} :
          f[fld].t \in {"undefined", "boolean"}
    /\ f.sort_by.t \in {"undefined", "string"}
    /\ f.sort_order.t \in {"undefined", "string"}

\* C30: for every output f of normalizeSearchFilters (here: of a
\* well-formed input), queryParamsToFilters(filtersToQueryParams(f)) equals
\* f in every field.
C30_UrlRoundTrip ==
    (upc = "loaded" /\ WellFormed(filters)) =>
        \A field \in DOMAIN EmptyFilters :
            SameField(normalized.value, reloaded.value, field)

====
